------------------------------ MODULE MCChecks ------------------------------
(***************************************************************************)
(* The background checks, for their liveness properties: link domains, the   *)
(* server name, sampled copies, addresses.  The four share no row, so a      *)
(* behaviour runs one of them; the others stay where they start, where they  *)
(* owe no step.                                                             *)
(***************************************************************************)
EXTENDS Domains, ServerName, SeedPlacement, AddressCheck

CONSTANT Parts   \* the parts the run is about

VARIABLE part

ChecksInit ==
  /\ part \in Parts
  /\ DomainsInit /\ ServerNameInit /\ SeedPlacementInit /\ AddressCheckInit
  /\ part # "domains" => reaching = {}
  /\ configured <=> part = "name"
  /\ part # "name" => saved = Never

ChecksNext ==
  /\ UNCHANGED part
  /\ IF part = "domains" THEN DomainsNext ELSE UNCHANGED domainsVars
  /\ IF part = "name" THEN ServerNameNext ELSE UNCHANGED serverNameVars
  /\ IF part = "seeds" THEN SeedPlacementNext ELSE UNCHANGED seedPlacementVars
  /\ IF part = "addresses" THEN AddressCheckNext ELSE UNCHANGED addressCheckVars

checksVars == <<part, domainsVars, serverNameVars, seedPlacementVars, addressCheckVars>>

ChecksSpec ==
  /\ ChecksInit /\ [][ChecksNext]_checksVars
  /\ DomainsFair /\ ServerNameFair /\ SeedPlacementFair /\ AddressCheckFair

=============================================================================
