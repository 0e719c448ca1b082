------------------------------ MODULE Finalize ------------------------------
(***************************************************************************)
(* finalize_properties (crates/checker/src/property.rs): the properties    *)
(* the search has left open are answered one after the other, from what it *)
(* recorded: a temporal one by the labels of Ctl, then a leadsToWithin one *)
(* by the sub-searches of LeadsTo.                                         *)
(***************************************************************************)
EXTENDS Ctl, LeadsTo

\* The leadsToWithin properties asked of a job: the fields of a query but for step.
CONSTANT Properties(_)

finalVars == <<vars, leads>>

\* resolve_trigger_edges: of the edges that match the trigger the search has
\* recorded those within the depth bound; the steps are all of the model's.
Question(p) ==
  [step |-> job.edges, user |-> p.user, allowUser |-> p.allowUser,
   trigger |-> p.trigger \cap Edges, goal |-> p.goal, broken |-> p.broken,
   budget |-> p.budget]

FinalInit == Init /\ LeadsInit

FinalNext ==
  \/ Next /\ UNCHANGED leads
  \/ /\ pc = "done"
     /\ \E p \in Properties(job) : Ask(Question(p))
     /\ UNCHANGED vars
  \/ LeadsStep /\ UNCHANGED vars

FinalSpec == FinalInit /\ [][FinalNext]_finalVars
=============================================================================
