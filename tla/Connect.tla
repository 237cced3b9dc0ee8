------------------------------ MODULE Connect ------------------------------
(***************************************************************************)
(* Signing a mailbox in with Google or Microsoft, next to the calls that    *)
(* use the sign-in: the browser goes to the provider and comes back, in one *)
(* tab or in two, through the owner's own app ("BYO") or through WarmHawk's *)
(* ("CONNECT"); a send or an IMAP poll reads the mailbox's row, mints an    *)
(* access token or takes a cached one, uses it, and reports how it went.    *)
(*                                                                          *)
(* One address.  A grant is a number, in the order the provider gave them;  *)
(* the row names its grant twice: by oauthConnectedAt, and by the refresh   *)
(* token it holds.  Rotated tokens of one grant are not told apart.         *)
(***************************************************************************)
EXTENDS Integers, FiniteSets

CONSTANTS
  Tab,        \* bound: browsers in the consent round trip
  MaxGrants,  \* bound: grants
  MaxRows     \* bound: times the mailbox is added

ASSUME ConnectAssumption == MaxGrants \in Nat /\ MaxRows \in Nat

Caller == {"send", "imap"} \* sendMail, openImapClient: a token cache entry each
Grant == 1..MaxGrants

VARIABLES
  row,      \* the Mailbox row
  tabs,     \* consent round trips
  users,    \* calls that use the sign-in
  cache,    \* accessTokenCache, by caller and grant (oauthConnectedAt)
  mode,     \* the owner's own app is set up, or a license was pushed, or neither
  grants,   \* grants given so far
  revoked,  \* grants the provider no longer accepts
  crossed   \* history: the last sign-in was saved while a call was under way

connectVars == <<row, tabs, users, cache, mode, grants, revoked, crossed>>

NoRow == [id |-> 0, connected |-> 0, token |-> 0, via |-> "none", error |-> FALSE]
NoTab == [pc |-> "none", id |-> 0, via |-> "none", grant |-> 0]
NoUse == [pc |-> "none", row |-> NoRow, access |-> 0]
Via == {"none", "BYO", "CONNECT"}
MailboxRow == [id : 0..MaxRows, connected : 0..MaxGrants, token : 0..MaxGrants,
               via : Via, error : BOOLEAN]

ConnectTypeOK ==
  /\ row \in MailboxRow
  /\ tabs \in [Tab -> [pc : {"none", "consent", "save", "refused"}, id : 0..MaxRows, via : Via,
                       grant : 0..MaxGrants]]
  /\ users \in [Caller -> [pc : {"none", "token", "rotate", "use"}, row : MailboxRow,
                           access : 0..MaxGrants]]
  /\ cache \in [Caller -> [Grant -> 0..MaxGrants]]
  /\ mode \in Via /\ crossed \in BOOLEAN
  /\ grants \in 0..MaxGrants /\ revoked \subseteq 1..grants

ConnectInit ==
  /\ row = NoRow
  /\ tabs = [t \in Tab |-> NoTab]
  /\ users = [u \in Caller |-> NoUse]
  /\ cache = [u \in Caller |-> [g \in Grant |-> 0]]
  /\ mode \in Via
  /\ grants = 0
  /\ revoked = {}
  /\ crossed = FALSE

-----------------------------------------------------------------------------
(* The row.                                                                 *)

hasSavedSignIn == row.token # 0

world == <<cache, mode, grants, revoked>>

(* POST /mailboxes: a row, before the consent round trip.  A row that never *)
(* got a sign-in is used again.                                             *)
AddMailbox ==
  /\ ~hasSavedSignIn
  /\ IF row = NoRow
     THEN \E id \in 1..MaxRows :
            /\ \A t \in Tab : tabs[t].id < id
            /\ \A u \in Caller : users[u].row.id < id
            /\ row' = [NoRow EXCEPT !.id = id]
     ELSE row' = [row EXCEPT !.error = FALSE]
  /\ UNCHANGED <<tabs, users, crossed, world>>

DeleteMailbox ==
  /\ row # NoRow
  /\ row' = NoRow
  /\ UNCHANGED <<tabs, users, crossed, world>>

\* mutant: whatever the row holds by now
removeIfNeverConnected_Any(id) ==
  row' = IF row.id = id THEN NoRow ELSE row

\* one statement: a row that got a sign-in meanwhile stays
removeIfNeverConnected(id) ==
  row' = IF row.id = id /\ ~hasSavedSignIn THEN NoRow ELSE row

-----------------------------------------------------------------------------
(* The consent round trip.                                                  *)

Authorize(t) ==
  /\ tabs[t] = NoTab
  /\ row # NoRow
  /\ mode # "none"
  /\ tabs' = [tabs EXCEPT ![t] = [pc |-> "consent", id |-> row.id, via |-> mode, grant |-> 0]]
  /\ UNCHANGED <<row, users, crossed, world>>

(* Neither an app nor a license: the row is deleted, whatever it holds, and *)
(* the browser is sent back with the reason.                                *)
AuthorizeUnconfigured(t) ==
  /\ tabs[t] = NoTab
  /\ row # NoRow
  /\ mode = "none"
  /\ row' = NoRow
  /\ tabs' = [tabs EXCEPT ![t].pc = "refused"]
  /\ UNCHANGED <<users, crossed, world>>

(* The relay cannot start, or the person declines, or the wrong account     *)
(* signed in, or the tokens cannot be exchanged.                            *)
ConsentFails(t) ==
  /\ tabs[t].pc = "consent"
  /\ removeIfNeverConnected(tabs[t].id)
  /\ tabs' = [tabs EXCEPT ![t] = NoTab]
  /\ UNCHANGED <<users, crossed, world>>

Abandon(t) ==
  /\ tabs[t].pc \in {"consent", "refused"}
  /\ tabs' = [tabs EXCEPT ![t] = NoTab]
  /\ UNCHANGED <<row, users, crossed, world>>

(* The callback: the code is exchanged for a grant.                         *)
Exchange(t) ==
  /\ tabs[t].pc = "consent"
  /\ row.id = tabs[t].id
  /\ grants < MaxGrants
  /\ grants' = grants + 1
  /\ tabs' = [tabs EXCEPT ![t].pc = "save", ![t].grant = grants + 1]
  /\ UNCHANGED <<row, users, cache, mode, revoked, crossed>>

(* The sign-in is saved; an update of a row that is gone throws.            *)
Save(t) ==
  /\ tabs[t].pc = "save"
  /\ IF row.id = tabs[t].id
     THEN /\ row' = [row EXCEPT !.connected = tabs[t].grant, !.token = tabs[t].grant,
                                !.via = tabs[t].via, !.error = FALSE]
          /\ crossed' = \E u \in Caller : users[u].pc # "none"
     ELSE UNCHANGED <<row, crossed>>
  /\ tabs' = [tabs EXCEPT ![t] = NoTab]
  /\ UNCHANGED <<users, world>>

-----------------------------------------------------------------------------
(* A call that uses the sign-in.                                            *)

Used(u) == users[u].row
UseEnds(u) == users' = [users EXCEPT ![u] = NoUse]

UseReads(u) ==
  /\ users[u].pc = "none"
  /\ hasSavedSignIn
  /\ users' = [users EXCEPT ![u] = [NoUse EXCEPT !.pc = "token", !.row = row]]
  /\ UNCHANGED <<row, tabs, crossed, world>>

\* mutant: any token of the mailbox will do
CachedToken_AnyGrant(u) ==
  /\ users[u].pc = "token" /\ Used(u).via = "CONNECT"
  /\ \E g \in Grant :
       /\ cache[u][g] # 0
       /\ users' = [users EXCEPT ![u].pc = "use", ![u].access = cache[u][g]]
  /\ UNCHANGED <<row, tabs, crossed, world>>

CachedToken(u) ==
  /\ users[u].pc = "token" /\ Used(u).via = "CONNECT"
  /\ cache[u][Used(u).connected] # 0
  /\ users' = [users EXCEPT ![u].pc = "use", ![u].access = cache[u][Used(u).connected]]
  /\ UNCHANGED <<row, tabs, crossed, world>>

(* The refresh token is exchanged for an access token.                      *)
Mint(u) ==
  /\ users[u].pc = "token"
  /\ Used(u).via = "CONNECT" => cache[u][Used(u).connected] = 0
  /\ Used(u).token \notin revoked
  /\ users' = [users EXCEPT ![u].pc = IF Used(u).via = "CONNECT" THEN "rotate" ELSE "use",
                            ![u].access = Used(u).token]
  /\ UNCHANGED <<row, tabs, crossed, world>>

(* Microsoft rotated the refresh token: the row takes the new one, of the   *)
(* grant this call read.  Then the access token is cached.                  *)
Rotate(u) ==
  /\ users[u].pc = "rotate"
  /\ users' = [users EXCEPT ![u].pc = "use"]
  /\ cache' = [cache EXCEPT ![u][Used(u).connected] = users[u].access]
  /\ \/ row' = IF row.id = Used(u).id THEN [row EXCEPT !.token = users[u].access] ELSE row
     \/ UNCHANGED row
  /\ UNCHANGED <<tabs, mode, grants, revoked, crossed>>

Expires(u, g) ==
  /\ cache[u][g] # 0
  /\ cache' = [cache EXCEPT ![u][g] = 0]
  /\ UNCHANGED <<row, tabs, users, mode, grants, revoked, crossed>>

\* recordConnectionFailure: on whatever the row holds now
Refused(u) ==
  /\ \/ users[u].pc = "token" /\ Used(u).token \in revoked
     \/ users[u].pc = "use" /\ users[u].access \in revoked
  /\ row' = IF row.id = Used(u).id THEN [row EXCEPT !.error = TRUE] ELSE row
  /\ UseEnds(u)
  /\ UNCHANGED <<tabs, crossed, world>>

(* The provider accepts, or fails for a reason of its own.  A send clears   *)
(* the error it read.                                                       *)
Accepted(u) ==
  /\ users[u].pc = "use" /\ users[u].access \notin revoked
  /\ row' = IF row.id = Used(u).id /\ Used(u).error /\ u = "send"
            THEN [row EXCEPT !.error = FALSE] ELSE row
  /\ UseEnds(u)
  /\ UNCHANGED <<tabs, crossed, world>>

Revoke(g) ==
  /\ g <= grants
  /\ revoked' = revoked \cup {g}
  /\ UNCHANGED <<row, tabs, users, cache, mode, grants, crossed>>

(* The owner sets up an app or removes it; the license comes or goes: what  *)
(* resolveProviderMode will answer.                                         *)
Configure ==
  /\ mode' \in Via
  /\ UNCHANGED <<row, tabs, users, cache, grants, revoked, crossed>>

UseStep(u) ==
  \/ UseReads(u) \/ CachedToken(u) \/ Mint(u) \/ Rotate(u) \/ Refused(u) \/ Accepted(u)

ConnectNext ==
  \/ AddMailbox
  \/ DeleteMailbox
  \/ \E t \in Tab : \/ Authorize(t) \/ AuthorizeUnconfigured(t) \/ ConsentFails(t)
                    \/ Abandon(t) \/ Exchange(t) \/ Save(t)
  \/ \E u \in Caller : UseStep(u)
  \/ \E u \in Caller, g \in Grant : Expires(u, g)
  \/ \E g \in Grant : Revoke(g)
  \/ Configure

ConnectSpec == ConnectInit /\ [][ConnectNext]_connectVars

-----------------------------------------------------------------------------
(* Properties.                                                              *)

(* "reconnecting a mailbox never reuses a token minted from the old grant"  *)
(* (accessTokenCache.ts): a call uses a token of the grant it read, and the *)
(* refresh token a row holds is the one of its last sign-in, unless a call  *)
(* was under way when that sign-in was saved.                               *)
OneGrant ==
  \/ crossed
  \/ /\ row.token = row.connected
     /\ \A u \in Caller : users[u].pc = "use" => users[u].access = Used(u).connected

(* A mailbox that holds a sign-in is removed by its owner, and by a consent *)
(* round trip only when the provider is not set up at all.                  *)
SignInKept ==
  [][hasSavedSignIn /\ row' = NoRow =>
       DeleteMailbox \/ \E t \in Tab : AuthorizeUnconfigured(t)]_connectVars

(* "A mailbox that already holds a credential (a reconnect) is left alone"  *)
(* (oauthCallback.ts).                                                      *)
ReconnectLeftAlone == [][hasSavedSignIn /\ row' = NoRow => DeleteMailbox]_connectVars

=============================================================================
