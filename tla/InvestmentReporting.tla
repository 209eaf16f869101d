------------------------- MODULE InvestmentReporting -------------------------
(***************************************************************************)
(* A whole investment run: the reasoning of InvestmentRounds, then the     *)
(* report its reviewed conclusion is assembled into, whose prose a writer  *)
(* and a reviewer may rewrite, and what of it is published.                *)
(* Sources: src/capabilities/investment/functions/reasoning.py and         *)
(* src/capabilities/investment/internal/local_runtime.py.                  *)
(***************************************************************************)
EXTENDS InvestmentRounds, InvestmentReport

CONSTANTS
  EventBatches,   \* archived Event batches, which name further Evidence
  MaxRewrites     \* bound of the model: sections one pass rewrites

VARIABLE report

reportingVars == <<vars, report>>

InitReporting == Init /\ report = NoReport

Reason == Next /\ UNCHANGED report

\* A run that was not accepted has no report.
Generate ==
  /\ phase = "done"
  /\ report = NoReport
  /\ report' \in IF verdict = "rejected" THEN {Skipped}
                 ELSE Assembled(ctx, EventBatches, facts, assess, related, draft)
  /\ UNCHANGED vars

\* The writer and then the reviewing editor rewrite some sections; what they
\* leave out keeps its text.
WriteAndEdit ==
  /\ report.status = "GENERATED"
  /\ \A s \in Sections(report) : s.conclusion = "assembled"
  /\ \E written, edited \in {S \in SUBSET SectionKeys(report) : Cardinality(S) <= MaxRewrites} :
       report' = ApplyNarratives(ApplyNarratives(report, written, "written"), edited, "edited")
  /\ UNCHANGED vars

NextReporting == Reason \/ Generate \/ WriteAndEdit

SpecReporting == InitReporting /\ [][NextReporting]_reportingVars

-----------------------------------------------------------------------------
(* Properties.                                                             *)

AnchorsIn(publication) == UNION {{a.key : a \in l.anchors} : l \in publication.layers}
ChainsIn(publication) == {c.key : c \in publication.chains}
NodesIn(publication) == UNION {{n.key : n \in c.nodes} : c \in publication.chains}

\* Where a target of each kind must be found.
TargetsIn(publication) ==
  {<<"anchor", k>> : k \in AnchorsIn(publication)}
    \cup {<<"industry_chain", k>> : k \in ChainsIn(publication)}
    \cup {<<"industry_chain_node", k>> : k \in NodesIn(publication)}

PathsIn(l) == l.toMacro \cup l.toIndustry

\* A published report is closed: the cross-layer paths lead to anchors, chains
\* and nodes that are in it although the nodes of a chain are chosen without a
\* look at the paths, no path is lost between the groups, edges join nodes that
\* are shown, and every card and its items refer to a section and say what the
\* section says after the prose was rewritten.
ReportCloses ==
  report.status = "GENERATED" =>
    LET publication == BuildPublication(report)
    IN  /\ \A l \in publication.layers : \A p \in PathsIn(l) :
             {<<t.type, t.key>> : t \in p.targets} \subseteq TargetsIn(publication)
        /\ \A l \in report.layers : \A p \in l.paths : \A t \in p.targets :
             \E m \in publication.layers : \E q \in PathsIn(m) :
               m.key = l.key /\ q.logic = p.logic /\ t \in q.targets
        /\ \A c \in publication.chains : \A e \in c.edges :
             {e.from, e.to} \subseteq {n.key : n \in c.nodes}
        /\ \A card \in report.cards : \E s \in Sections(report) :
             /\ s.key = card.ref.key
             /\ <<s.conclusion, s.result, s.conf>> = <<card.conclusion, card.result, card.conf>>
             /\ card.items \subseteq AnchorsIn(publication) \cup NodesIn(publication)

\* What is published as confirmed names Evidence and nothing else does, and what
\* is published with a direction rests on something: a Signal, an assessment or
\* a transmission; the direction of a chain is that of a node it shows.
ClaimsHaveBasis ==
  report.status = "GENERATED" =>
    LET publication == BuildPublication(report)
    IN  /\ \A l \in publication.layers : \A a \in l.anchors : a.evidence # {}
        /\ \A c \in publication.chains : \A n \in c.nodes :
             /\ n.basis[2] = "confirmed" <=> n.evidence # {}
             /\ n.result # "pending" =>
                  n.basis[1] # "no_directional_conclusion" /\ n.window # {}
        /\ \A c \in publication.chains : c.result # "pending" =>
             \E n \in c.nodes : n.result # "pending" /\ n.window \subseteq c.window

-----------------------------------------------------------------------------
(* What every generated report satisfies, from which the properties follow. *)

AnchorKeys(r) == UNION {{a.key : a \in l.anchors} : l \in r.layers}
NodeKeys(r) == UNION {{n.key : n \in c.nodes} : c \in r.chains}

WellFormed(r) ==
  /\ DOMAIN r = {"status", "layers", "chains", "cards"}
  /\ \A l \in r.layers :
       /\ DOMAIN l = {"key", "conclusion", "result", "conf", "window", "anchors", "steps",
                       "paths", "hypotheses", "evidence"}
       /\ \A p \in l.paths : DOMAIN p = {"targets", "kind", "conf", "logic"}
  /\ \A c \in r.chains : DOMAIN c = {"key", "conclusion", "result", "conf", "window", "status",
                                     "nodes", "edges", "evidence"}
  /\ \A card \in r.cards : DOMAIN card = {"ref", "conclusion", "result", "conf", "items",
                                          "evidence"}

\* A target is in the report, and one that is an anchor is named by the upper
\* of the two layers, the only one published with a group for it.
Leads(r, l, t) ==
  \/ t.type = "anchor" /\ t.key \in AnchorKeys(r) /\ l.key = LayerKey("GEOPOLITICAL")
  \/ t.type = "industry_chain" /\ t.key \in {c.key : c \in r.chains}
  \/ t.type = "industry_chain_node" /\ t.key \in NodeKeys(r)

Refers(r, card) ==
  \E s \in Sections(r) :
    /\ s.key = card.ref.key
    /\ s.conclusion = card.conclusion /\ s.result = card.result /\ s.conf = card.conf
    /\ card.items \subseteq AnchorKeys(r) \cup NodeKeys(r)

\* Sections of one key have one text, although nothing asks for keys to differ.
Closed(r) ==
  /\ \A l \in r.layers : \A p \in l.paths : \A t \in p.targets : Leads(r, l, t)
  /\ \A c \in r.chains : \A e \in c.edges : {e.from, e.to} \subseteq {n.key : n \in c.nodes}
  /\ \A s, u \in Sections(r) : s.key = u.key => s.conclusion = u.conclusion
  /\ \A card \in r.cards : Refers(r, card)

BasedNode(n) ==
  /\ n.nature = "direct_evidence" <=> n.evidence # {}
  /\ n.result # "pending" =>
       n.nature \in {"direct_evidence", "reasoning_hypothesis"} /\ n.window # {}

Based(r) ==
  /\ \A l \in r.layers : \A a \in l.anchors : a.evidence # {}
  /\ \A c \in r.chains : \A n \in c.nodes : BasedNode(n)
  /\ \A c \in r.chains : c.result # "pending" =>
       \E n \in c.nodes : n.result # "pending" /\ n.window \subseteq c.window

ReportInv ==
  report.status = "GENERATED" => WellFormed(report) /\ Closed(report) /\ Based(report)
=============================================================================
