----------------------------- MODULE LineStream -----------------------------
(***************************************************************************)
(* What the stream of a run promises to those who read it, whatever        *)
(* history, queues and sentinels carry it: a reader who comes while the    *)
(* run goes on gets the last lines printed, at most History of them, and   *)
(* from there on every line, once and in order; and is let go only when    *)
(* the run is over and nothing of its output is left to tell.  A reader    *)
(* who comes too early or too late may be shown what was kept of the       *)
(* output.  A line is its number.                                          *)
(***************************************************************************)
EXTENDS Naturals, Sequences

CONSTANTS Readers,  \* whoever may read
          History   \* the most lines a late reader is given at once

VARIABLES printed,  \* lines of output so far
          phase,    \* of the run: "new", "live", "over"
          at,       \* each reader: "out", "in" the stream, or "past" it
          told,     \* the lines each reader was given since it came
          next      \* the line each reader in the stream is to be given next

streamVars == <<printed, phase, at, told, next>>

Kept == IF printed <= History THEN printed ELSE History

Init ==
  /\ printed = 0
  /\ phase = "new"
  /\ at = [r \in Readers |-> "out"]
  /\ told = [r \in Readers |-> <<>>]
  /\ next = [r \in Readers |-> 0]

Emit ==
  /\ phase = "live"
  /\ printed' = printed + 1
  /\ UNCHANGED <<phase, at, told, next>>

\* A run may be over without having gone on, and is never taken up again.
Advance ==
  /\ \/ phase = "new" /\ phase' \in {"live", "over"}
     \/ phase = "live" /\ phase' = "over"
  /\ UNCHANGED <<printed, at, told, next>>

Tune(r) ==
  /\ at[r] = "out" /\ phase = "live"
  /\ at' = [at EXCEPT ![r] = "in"]
  /\ told' = [told EXCEPT ![r] = [i \in 1..Kept |-> (printed - Kept) + i]]
  /\ next' = [next EXCEPT ![r] = printed + 1]
  /\ UNCHANGED <<printed, phase>>

Miss(r) ==
  /\ at[r] = "out" /\ phase # "live"
  /\ at' = [at EXCEPT ![r] = "past"]
  /\ UNCHANGED <<printed, phase, told, next>>

Tell(r) ==
  /\ at[r] = "in" /\ next[r] <= printed
  /\ told' = [told EXCEPT ![r] = Append(@, next[r])]
  /\ next' = [next EXCEPT ![r] = @ + 1]
  /\ UNCHANGED <<printed, phase, at>>

End(r) ==
  /\ at[r] = "in" /\ phase = "over" /\ next[r] = printed + 1
  /\ at' = [at EXCEPT ![r] = "past"]
  /\ next' = [next EXCEPT ![r] = 0]
  /\ UNCHANGED <<printed, phase, told>>

\* What was kept of the output, to a reader who was told nothing.
Recall(r) ==
  /\ at[r] = "past" /\ told[r] = <<>>
  /\ told' = [told EXCEPT ![r] = told'[r]] /\ told'[r] \in Seq(1..printed)
  /\ UNCHANGED <<printed, phase, at, next>>

Leave(r) ==
  /\ at[r] # "out"
  /\ at' = [at EXCEPT ![r] = "out"]
  /\ told' = [told EXCEPT ![r] = <<>>]
  /\ next' = [next EXCEPT ![r] = 0]
  /\ UNCHANGED <<printed, phase>>

\* The server is gone, and with it every stream; a run that had begun is over.
Break ==
  /\ phase' = "over" \/ (phase = "new" /\ phase' = "new")
  /\ \E lost \in SUBSET Readers :
       /\ {r \in Readers : at[r] = "in"} \subseteq lost
       /\ at' = [r \in Readers |-> IF r \in lost THEN "out" ELSE at[r]]
       /\ told' = [r \in Readers |-> IF r \in lost THEN <<>> ELSE told[r]]
       /\ next' = [r \in Readers |-> IF r \in lost THEN 0 ELSE next[r]]
  /\ UNCHANGED printed

Next ==
  \/ Emit \/ Advance \/ Break
  \/ \E r \in Readers : Tune(r) \/ Miss(r) \/ Tell(r) \/ End(r) \/ Recall(r) \/ Leave(r)

Spec == Init /\ [][Next]_streamVars
=============================================================================
