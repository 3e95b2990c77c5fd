------------------------------ MODULE FillsTca ------------------------------
(***************************************************************************)
(* The TCA rows of public.fills: the router inserts one per intent right   *)
(* after the intent row, in a statement of its own that may fail or never  *)
(* run (AlphaStream); the backfill script (backfill_fills_tca.py) later    *)
(* inserts one for each filled intent that has none.  An operator starts   *)
(* the script as often as he likes while the routers go on, one run at a   *)
(* time.                                                                   *)
(***************************************************************************)
EXTENDS AlphaStream

VARIABLES
  filled,      \* alphas whose intent the adapter has filled, with fill data
  backfilled,  \* TCA rows the script inserted for an alpha's intent
  script,      \* "idle", "insert" (report done) or "commit" (statement done)
  selected,    \* alphas whose intents the INSERT selected, not yet committed
  recording    \* those a router was about to insert a TCA row for just then

tcaVars == <<filled, backfilled, script, selected, recording>>

TcaTypeOK ==
  /\ TypeOK
  /\ filled \subseteq {a \in Alphas : rows[a] = "queued"}
  /\ backfilled \in [Alphas -> 0..1]
  /\ script \in {"idle", "insert", "commit"}
  /\ recording \subseteq Alphas
  /\ selected \subseteq filled
  /\ script # "commit" => selected = {}

TcaInit ==
  /\ Init
  /\ filled = {} /\ script = "idle" /\ selected = {} /\ recording = {}
  /\ backfilled = [a \in Alphas |-> 0]

(* The adapter fills an intent and completes its TCA row, if it has one.   *)
FillIntent(a) ==
  /\ rows[a] = "queued"
  /\ filled' = filled \cup {a}
  /\ UNCHANGED <<vars, backfilled, script, selected, recording>>

(* The intents both statements of the script look for: filled, and without *)
(* a TCA row that has been committed.                                      *)
CandidatesOfRouter == {a \in filled : fills[a] = 0}
Candidates         == {a \in filled : fills[a] = 0 /\ backfilled[a] = 0}

(* _report counts them; a dry run, or a count of zero, ends the script.    *)
Report ==
  /\ script = "idle"
  /\ Candidates # {}
  /\ script' = "insert"
  /\ UNCHANGED <<vars, filled, backfilled, selected, recording>>

(* The INSERT ... SELECT sees what was committed when it starts.           *)
SelectCandidates ==
  /\ script = "insert"
  /\ script'    = "commit"
  /\ selected'  = Candidates
  /\ recording' = recording \cup {Alpha(w) : w \in {v \in Workers : loop[v] = "record"}}
  /\ UNCHANGED <<vars, filled, backfilled>>

Commit ==
  /\ script = "commit"
  /\ backfilled' = [a \in Alphas |-> backfilled[a] + (IF a \in selected THEN 1 ELSE 0)]
  /\ script' = "idle" /\ selected' = {}
  /\ UNCHANGED <<vars, filled, recording>>

(* The script dies, or its statement fails: the transaction rolls back.    *)
RollBack ==
  /\ script # "idle"
  /\ script' = "idle" /\ selected' = {}
  /\ UNCHANGED <<vars, filled, backfilled, recording>>

Backfill == Report \/ SelectCandidates \/ Commit \/ RollBack

TcaNext ==
  \/ Next /\ UNCHANGED tcaVars
  \/ \E a \in Alphas : FillIntent(a)
  \/ Backfill

TcaSpec == TcaInit /\ [][TcaNext]_<<vars, tcaVars>> /\ Fairness

-----------------------------------------------------------------------------
(* However often the script is run, cut short and run again, and whichever *)
(* TCA rows the routers lost, an intent is counted once, unless a router   *)
(* was between its two inserts when the script selected it                 *)
(* (backfill_fills_tca.py:16-20, router.py:343-366).                       *)
CountedOnce ==
  \A a \in Alphas \ recording : fills[a] + backfilled[a] <= 1

=============================================================================
