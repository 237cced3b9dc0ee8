------------------------------- MODULE MCDesk -------------------------------
(***************************************************************************)
(* The parts beside the send path, for their safety properties.  They share  *)
(* no row with each other, so a behaviour runs one of them, and the others   *)
(* stay where they start.                                                   *)
(***************************************************************************)
EXTENDS Ingest, Connect, Domains, Lookalikes, AddressCheck, Writing, Forecast, TLC

CONSTANTS
  Parts,           \* the parts the run is about
  m1, m2, g1, g2   \* of the forecast

VARIABLE part

MC_MailboxIds == g1 :> {m1, m2} @@ g2 :> {m2}
MC_MaxNewLeads == g1 :> 1 @@ g2 :> 2
MC_FirstWait == g1 :> 1 @@ g2 :> 1
MC_FirstLeft == g1 :> 2 @@ g2 :> 1
MC_Bookings == {m1 :> 0 @@ m2 :> 0, m1 :> 0 @@ m2 :> 1}

DeskInit ==
  /\ part \in Parts
  /\ IngestInit /\ ConnectInit /\ DomainsInit /\ LookalikesInit /\ AddressCheckInit
  /\ WritingInit /\ ForecastInit
  /\ part # "connect" => mode = CHOOSE v \in Via : TRUE
  /\ part # "domains" => reaching = {}

DeskNext ==
  /\ UNCHANGED part
  /\ IF part = "ingest" THEN IngestNext ELSE UNCHANGED ingestVars
  /\ IF part = "connect" THEN ConnectNext ELSE UNCHANGED connectVars
  /\ IF part = "domains" THEN DomainsNext ELSE UNCHANGED domainsVars
  /\ IF part = "lookalikes" THEN LookalikesNext ELSE UNCHANGED lookalikesVars
  /\ IF part = "addresses" THEN AddressCheckNext ELSE UNCHANGED addressCheckVars
  /\ IF part = "writing" THEN WritingNext ELSE UNCHANGED writingVars
  /\ IF part = "forecast" THEN ForecastNext ELSE UNCHANGED forecastVars

deskVars ==
  <<part, ingestVars, connectVars, domainsVars, lookalikesVars, addressCheckVars, writingVars,
    forecastVars>>

DeskSpec == DeskInit /\ [][DeskNext]_deskVars

=============================================================================
