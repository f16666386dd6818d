---------------------------- MODULE PrivateSandbox ----------------------------
(***************************************************************************)
(* What the sandbox promises: every run is judged as if it had a temporary *)
(* directory nobody else ever uses.  There is no lock and no shared path:  *)
(* each run starts empty, only its own suite changes what it holds, and    *)
(* the verdict is a function of that alone.                                *)
(***************************************************************************)
CONSTANTS Runs, Entries, Allowed, Pinned

VARIABLES
  phase,     \* "out" before the suite, "open" during it, "over" after
  content,   \* what each run's own directory holds while it is open
  present,   \* whether that directory is still there
  used,      \* whether anything ever wrote to it
  verdict

vars == <<phase, content, present, used, verdict>>

Init ==
  /\ phase = [r \in Runs |-> "out"]
  /\ content = [r \in Runs |-> {}]
  /\ present = [r \in Runs |-> FALSE]
  /\ used = [r \in Runs |-> FALSE]
  /\ verdict = [r \in Runs |-> "none"]

Start(r) ==
  /\ phase[r] = "out"
  /\ phase' = [phase EXCEPT ![r] = "open"]
  /\ present' = [present EXCEPT ![r] = TRUE]
  /\ UNCHANGED <<content, used, verdict>>

(* The run's own suite makes, removes or drops what is in its directory. *)
Change(r) ==
  /\ phase[r] = "open"
  /\ \/ \E e \in Entries :
          /\ content' = [content EXCEPT ![r] = @ \cup {e}]
          /\ present' = [present EXCEPT ![r] = TRUE]
     \/ /\ present[r]
        /\ \E gone \in SUBSET (content[r] \ Pinned) :
             content' = [content EXCEPT ![r] = @ \ gone]
        /\ UNCHANGED present
     \/ /\ content' = [content EXCEPT ![r] = @ \cap Pinned]
        /\ present' = [present EXCEPT ![r] = content'[r] # {}]
  /\ used' = [used EXCEPT ![r] = TRUE]
  /\ UNCHANGED <<phase, verdict>>

Shut(r) ==
  /\ phase' = [phase EXCEPT ![r] = "over"]
  /\ content' = [content EXCEPT ![r] = {}]
  /\ present' = [present EXCEPT ![r] = FALSE]
  /\ used' = [used EXCEPT ![r] = FALSE]

Judge(r) ==
  /\ phase[r] = "open"
  /\ \E suite \in {"passed", "failed"} :
       verdict' = [verdict EXCEPT ![r] =
         IF ~present[r] THEN "error"
         ELSE IF content[r] = {} /\ ~used[r] THEN "unused"
         ELSE IF content[r] \ Allowed # {} THEN "leaked"
         ELSE suite]
  /\ Shut(r)

(* A run that never gets a directory says so. *)
Refuse(r) ==
  /\ phase[r] = "out"
  /\ verdict' = [verdict EXCEPT ![r] = "error"]
  /\ Shut(r)

Kill(r) ==
  /\ phase[r] # "over"
  /\ Shut(r)
  /\ UNCHANGED verdict

Next == \E r \in Runs : Start(r) \/ Change(r) \/ Judge(r) \/ Refuse(r) \/ Kill(r)

Spec == Init /\ [][Next]_vars

=============================================================================
