------------------------------ MODULE WorkLedger ------------------------------
(***************************************************************************)
(* What the job manager promises the miners, without ids and tables.       *)
(*                                                                         *)
(* Templates are numbered in the order they are made.  A template is open  *)
(* from the moment it is made until the next block is announced; a piece   *)
(* of work on an open template is credited at most once, ever, and closed  *)
(* templates never open again.  The one concession: a template that is     *)
(* IdSpan generations old may be closed early, because ids are finite.     *)
(***************************************************************************)
EXTENDS Naturals

CONSTANTS
  Submission,   \* pieces of work on one template
  IdSpan        \* number of templates that can be told apart by their id

VARIABLES
  issued,       \* number of templates made so far
  open,         \* templates whose shares count
  credited,     \* pairs <<template, submission>> that were credited
  credits       \* how many times a share was credited

workVars == <<issued, open, credited, credits>>

WorkInit == issued = 0 /\ open = {} /\ credited = {} /\ credits = 0

\* A block was announced: everything older is closed.
Announce ==
  /\ issued' = issued + 1
  /\ open'   = {issued + 1}
  /\ UNCHANGED <<credited, credits>>

\* Another template for the same miners.
Refresh ==
  /\ issued' = issued + 1
  /\ open'   = {issued + 1} \cup {t \in open : t + IdSpan > issued + 1}
  /\ UNCHANGED <<credited, credits>>

Credit(t, s) ==
  /\ t \in open
  /\ <<t, s>> \notin credited
  /\ credited' = credited \cup {<<t, s>>}
  /\ credits' = credits + 1
  /\ UNCHANGED <<issued, open>>

WorkNext ==
  \/ Announce
  \/ Refresh
  \/ \E t \in open, s \in Submission : Credit(t, s)

WorkSpec == WorkInit /\ [][WorkNext]_workVars
===============================================================================
