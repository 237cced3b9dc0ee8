------------------------------ MODULE Writing ------------------------------
(***************************************************************************)
(* What the AI provider is asked for and what becomes of its answers: the  *)
(* text of an email (a first one or a follow-up), tried twice, checked      *)
(* against the sender's own email, tried twice more, with that own email to *)
(* fall back on; and the label of a reply, asked of every provider in turn, *)
(* with keywords to fall back on.  The provider answers anything.           *)
(*                                                                          *)
(* An answer is what the checks tell apart: "good" keeps every line of the  *)
(* sender's email, "reworded" changes lines but keeps its links and prices, *)
(* "dropped" leaves those out, "linked" adds a link, "hollow" is nothing    *)
(* once stripPlaceholders has been over it.  An answer with no text at all  *)
(* is a failure (generateClaudeText, generateGeminiText throw).             *)
(***************************************************************************)
EXTENDS Naturals, Sequences, FiniteSets

CONSTANT Providers   \* bound: active keys a reply may be shown to

ASSUME WritingAssumption == Providers \in Nat

Text == {"good", "reworded", "dropped", "linked", "hollow"}
Passing == {"provider_error"}                                      \* may pass
Lasting == {"model_unavailable", "key_rejected", "quota_exceeded"} \* will not
AiFallbackReason == Passing \cup Lasting \cup {"key_missing", "content_dropped"}
Answer == [text : Text, subject : BOOLEAN] \* subject: it starts with a Subject: line

VARIABLES
  request,   \* what is asked for
  phase,     \* 1, 2: first try and retry; 3, 4: after a failed check, or the next key
  outputs,   \* what the provider said, in order
  composed   \* what came of it

writingVars == <<request, phase, outputs, composed>>

Request ==
  [kind : {"first", "followUp"}, key : {"none", "missing", "active"},
   mode : {"PERSONALIZE", "PROMPT"}, instructions : BOOLEAN,
   base : {"blank", "plain", "facts"},        \* the sender's email: none, without or with facts
   subject : {"own", "ai", "none"}]           \* the campaign's, rewritten by the AI, or missing
ReplyRequest == [kind : {"label"}, keys : 0..Providers, blank : BOOLEAN]
Idle == [kind |-> "none"]
NotYet == [outcome |-> "none"]

Said == {"label", "no_label"} \cup Passing \cup Lasting
Calls == Answer \cup [failed : Passing \cup Lasting] \cup [key : 1..Providers, said : Said]
Failed(call) == "failed" \in DOMAIN call

WritingTypeOK ==
  /\ request \in Request \cup ReplyRequest \cup {Idle}
  /\ phase \in 1..4 \cup 1..(2 * Providers)
  /\ outputs \in Seq(Calls)
  /\ \/ composed = NotYet
     \/ composed \in [outcome : {"TEMPLATE", "AI_FALLBACK", "AI_WRITTEN"},
                      reason : AiFallbackReason \cup {"none"},
                      subject : {"own", "model", "first line", "thread"},
                      body : {"own", "empty"} \cup Text]
     \/ composed \in [outcome : {"UNCLASSIFIED", "model", "keyword"}]

WritingInit ==
  /\ request = Idle
  /\ phase = 1
  /\ outputs = <<>>
  /\ composed = NotYet

-----------------------------------------------------------------------------
(* The email.                                                               *)

\* splitLegacySubject: a campaign with no subject sends its first line as one
ownSubject ==
  CASE request.kind = "followUp" -> "thread"
    [] request.subject = "none" -> "first line"
    [] OTHER -> "own"

plain(outcome, reason) ==
  [outcome |-> outcome, reason |-> reason, subject |-> ownSubject, body |-> "own"]

\* changedLines, for AI Adjusts and the first email
changedLines(answer) == answer.text # "good"

missingFacts(answer) == request.base = "facts" /\ answer.text \in {"dropped", "hollow"}

\* mutant: only what is missing counts
hasProblems_Missing(answer) ==
  /\ ~request.instructions /\ request.base # "blank"
  /\ IF request.mode = "PERSONALIZE" /\ request.kind = "first"
     THEN changedLines(answer) /\ answer.text # "linked" ELSE missingFacts(answer)

(* Nothing is checked when the owner wrote instructions, or no email.       *)
hasProblems(answer) ==
  /\ ~request.instructions /\ request.base # "blank"
  /\ \/ IF request.mode = "PERSONALIZE" /\ request.kind = "first"
        THEN changedLines(answer) ELSE missingFacts(answer)
     \/ answer.text = "linked"

(* A Subject: line is taken off when one was asked for.                     *)
parseGeneratedEmail(answer) ==
  request.kind = "first" /\ request.subject # "own" /\ answer.subject

\* nothing left to send
stripPlaceholders(answer) ==
  answer.text = "hollow" /\ (~answer.subject \/ parseGeneratedEmail(answer))

(* Subject precedence, and what is left for the body.                       *)
written(answer) ==
  [outcome |-> "AI_WRITTEN", reason |-> "none",
   subject |-> IF parseGeneratedEmail(answer) THEN "model"
               ELSE IF request.subject = "ai" THEN "own" ELSE ownSubject,
   body |-> IF stripPlaceholders(answer) THEN "empty" ELSE answer.text]

WriteStarts(r) ==
  /\ request = Idle
  /\ request' = r
  /\ UNCHANGED <<phase, outputs, composed>>

NoProvider ==
  /\ request.kind \in {"first", "followUp"} /\ composed = NotYet
  /\ request.key # "active"
  /\ composed' = IF request.key = "none" THEN plain("TEMPLATE", "none")
                 ELSE plain("AI_FALLBACK", "key_missing")
  /\ UNCHANGED <<request, phase, outputs>>

(* A failed call is made once more, then the sender's own email goes out.   *)
personalizeWithFallback(reason) ==
  IF phase \in {1, 3}
  THEN phase' = phase + 1 /\ UNCHANGED composed
  ELSE composed' = plain("AI_FALLBACK", reason) /\ UNCHANGED phase

(* personalizeChecked: one call, and what is done with it.                  *)
Writes(r) ==
  /\ request.kind \in {"first", "followUp"} /\ request.key = "active"
  /\ composed = NotYet
  /\ outputs' = Append(outputs, r)
  /\ IF Failed(r)
     THEN personalizeWithFallback(r.failed)
     ELSE IF ~hasProblems(r)
          THEN composed' = written(r) /\ UNCHANGED phase
          ELSE IF phase < 3
               THEN phase' = 3 /\ UNCHANGED composed
               ELSE composed' = plain("AI_FALLBACK", "content_dropped") /\ UNCHANGED phase
  /\ UNCHANGED request

-----------------------------------------------------------------------------
(* The label of a reply.                                                    *)

Keyword == [outcome |-> IF request.blank THEN "UNCLASSIFIED" ELSE "keyword"]

LabelUnasked ==
  /\ request.kind = "label" /\ composed = NotYet
  /\ request.keys = 0 \/ request.blank
  /\ composed' = Keyword
  /\ UNCHANGED <<request, phase, outputs>>

\* mutant: any failure passes the reply on to the next key
NextAttempt_Impatient(said) == IF phase % 2 = 1 THEN phase + 2 ELSE phase + 1

\* two attempts a key; one, when the failure will not pass
NextAttempt(said) == IF phase % 2 = 1 /\ said \in Lasting THEN phase + 2 ELSE phase + 1

Labels(said) ==
  /\ request.kind = "label" /\ composed = NotYet
  /\ request.keys > 0 /\ ~request.blank
  /\ outputs' = Append(outputs, [key |-> (phase + 1) \div 2, said |-> said])
  /\ IF said = "label" THEN composed' = [outcome |-> "model"] /\ UNCHANGED phase
     ELSE IF NextAttempt(said) > 2 * request.keys
          THEN composed' = Keyword /\ UNCHANGED phase
          ELSE phase' = NextAttempt(said) /\ UNCHANGED composed
  /\ UNCHANGED request

WritingNext ==
  \/ \E r \in Request \cup ReplyRequest : WriteStarts(r)
  \/ NoProvider
  \/ \E r \in Answer \cup [failed : Passing \cup Lasting] : Writes(r)
  \/ LabelUnasked
  \/ \E said \in Said : Labels(said)

WritingSpec == WritingInit /\ [][WritingNext]_writingVars

-----------------------------------------------------------------------------
(* Properties.                                                              *)

(* "the defaults promise to keep the sender's links, prices and (AI         *)
(* Adjusts) sentences" (composeCampaignEmail.ts): with no instructions of   *)
(* the owner's, no AI text goes out that lost a price or a link, added one, *)
(* or, when the AI adjusts a first email, changed a line; and the sender's  *)
(* email goes out instead of the AI's only after two failures in a row, or  *)
(* two answers that did.                                                    *)
OfferKept ==
  LET unchecked == request.instructions \/ request.base = "blank"
      answers == {i \in DOMAIN outputs : ~Failed(outputs[i])}
  IN request.kind \in {"first", "followUp"} /\ composed # NotYet =>
     /\ composed.outcome = "AI_WRITTEN" /\ ~unchecked =>
          /\ composed.body # "linked"
          /\ request.base = "facts" => composed.body # "dropped"
          /\ request.kind = "first" /\ request.mode = "PERSONALIZE" => composed.body = "good"
     /\ composed.reason \in Passing \cup Lasting =>
          /\ Len(outputs) >= 2
          /\ Failed(outputs[Len(outputs)]) /\ Failed(outputs[Len(outputs) - 1])
     /\ composed.reason = "content_dropped" => Cardinality(answers) = 2

(* "One failed Gemini call left a 'Sure' UNCLASSIFIED while the Claude key  *)
(* sat unused" (aiProviderClient.ts): keywords label a reply only when every *)
(* key has failed, twice or for good.                                       *)
EveryKeyAsked ==
  composed = [outcome |-> "keyword"] =>
    \A k \in 1..request.keys :
      LET asked == {i \in DOMAIN outputs : outputs[i].key = k}
      IN \/ Cardinality(asked) = 2
         \/ \E i \in asked : outputs[i].said \in Lasting

=============================================================================
