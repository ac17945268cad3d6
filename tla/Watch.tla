------------------------------- MODULE Watch -------------------------------
(***************************************************************************)
(* socgen -watch (runWatch): generate a board once, then poll the          *)
(* modification times of its yaml files and generate again when one of     *)
(* them changes, while a developer edits the files.                        *)
(*                                                                         *)
(* A file is its version, which is also its modification time; version 0   *)
(* is a missing file, with the zero time.  The yaml files are read one by  *)
(* one, stat'ed one by one and the outputs are written one by one, so an   *)
(* edit may fall between any two of these steps.                           *)
(***************************************************************************)
EXTENDS Naturals

CONSTANTS
  Variant,  \* is a -variant given?
  Outputs,  \* the number of files that Write writes
  MaxEdits  \* bound on the number of edits
ASSUME VariantAssumption == Variant \in BOOLEAN
ASSUME OutputsAssumption == Outputs \in Nat /\ Outputs > 0
ASSUME MaxEditsAssumption == MaxEdits \in Nat

\* The board's own files and the shared include.
Design == IF Variant THEN "design.variant.yaml" ELSE "design.yaml"
Read == {Design, "shared.yaml"} \cup (IF Variant THEN {"base.yaml"} ELSE {})
Files == {"design.yaml", "shared.yaml"} \cup Read

VARIABLES
  text,    \* file -> its version
  edits,   \* number of edits so far, also the latest version
  pc,      \* where runWatch is
  todo,    \* files still to read, or to stat
  got,     \* file -> version read by the generation under way
  n,       \* outputs it has written
  out,     \* output -> what it was generated from
  failed,  \* the last generation returned an error
  paths,   \* watchedFiles, evaluated once
  prev, cur,  \* the last two snapshots
  first,   \* the first snapshot
  sig      \* an interrupt is pending

files == <<text, edits>>
vars == <<text, edits, pc, todo, got, n, out, failed, paths, prev, cur, first, sig>>

None == [f \in {} |-> 0]

\* The outputs of an earlier socgen may be there: version 1 of everything.
Init ==
  /\ text = [f \in Files |-> 1] /\ edits = 1
  /\ pc = "read" /\ todo = Read /\ got = None /\ n = 0
  /\ out = [o \in 1..Outputs |-> [f \in Read |-> 1]] /\ failed = FALSE
  /\ paths = {} /\ prev = None /\ cur = None /\ first = None
  /\ sig = FALSE

\* The developer saves or deletes a file.
Edit ==
  /\ edits < MaxEdits
  /\ \E f \in Files, gone \in BOOLEAN :
       text' = [text EXCEPT ![f] = IF gone THEN 0 ELSE edits + 1]
  /\ edits' = edits + 1
  /\ UNCHANGED <<pc, todo, got, n, out, failed, paths, prev, cur, first, sig>>

\* Notify is called after the first snapshot.
Interrupt ==
  /\ ~sig /\ prev # None /\ sig' = TRUE
  /\ UNCHANGED <<text, edits, pc, todo, got, n, out, failed, paths, prev, cur, first>>

-----------------------------------------------------------------------------
(* generateBoard.  An error of the first generation ends the program, a    *)
(* later one is printed.                                                   *)

Started == paths # {}
Return(err) ==
  /\ failed' = err
  /\ pc' = IF Started THEN "select" ELSE IF err THEN "exit" ELSE "glob"

\* board.Load reads the design and its includes; a missing one is an error and
\* nothing is written.
ReadFile ==
  /\ pc = "read"
  /\ \E f \in todo :
       IF text[f] = 0
         THEN Return(TRUE) /\ todo' = {} /\ UNCHANGED <<got, n>>
         ELSE /\ todo' = todo \ {f}
              /\ got' = [g \in DOMAIN got \cup {f} |-> IF g = f THEN text[f] ELSE got[g]]
              /\ IF todo = {f} THEN pc' = "write" /\ n' = 0 ELSE UNCHANGED <<pc, n>>
              /\ UNCHANGED failed
  /\ UNCHANGED <<files, out, paths, prev, cur, first, sig>>

\* Build refuses the plugin list: nothing is written.
Refuse ==
  /\ pc = "write" /\ n = 0
  /\ Return(TRUE)
  /\ UNCHANGED <<files, todo, got, n, out, paths, prev, cur, first, sig>>

\* Mutant: an error of Write is dropped.
WriteErrorDropped ==
  /\ pc = "write"
  /\ Return(FALSE)
  /\ UNCHANGED <<files, todo, got, n, out, paths, prev, cur, first, sig>>
\* Write stops at the first error and leaves what it has written.
WriteError ==
  /\ pc = "write"
  /\ Return(TRUE)
  /\ UNCHANGED <<files, todo, got, n, out, paths, prev, cur, first, sig>>

WriteFile ==
  /\ pc = "write"
  /\ out' = [out EXCEPT ![n + 1] = got]
  /\ IF n + 1 = Outputs
       THEN n' = 0 /\ Return(FALSE)
       ELSE n' = n + 1 /\ UNCHANGED <<pc, failed>>
  /\ UNCHANGED <<files, todo, got, paths, prev, cur, first, sig>>

-----------------------------------------------------------------------------
(* runWatch after the first generation.                                    *)

\* watchedFiles: design.yaml, there or not, and the shared files that are there.
Glob == {"design.yaml"} \cup {f \in {"shared.yaml"} : text[f] # 0}

WatchedFiles ==
  /\ pc = "glob"
  /\ paths' = Glob /\ todo' = Glob /\ cur' = None
  /\ pc' = "stat"
  /\ UNCHANGED <<files, got, n, out, failed, prev, first, sig>>

\* The loop has a tick, or a signal, or both: select picks one.  The ticker keeps
\* one tick, so there is one after every regeneration.
Tick ==
  /\ pc = "select"
  /\ pc' = "stat" /\ todo' = paths /\ cur' = None
  /\ UNCHANGED <<files, got, n, out, failed, paths, prev, first, sig>>

\* Mutant: the signal is looked at only as long as nothing was regenerated.
StopFresh ==
  /\ pc = "select" /\ sig /\ prev \in {None, first}
  /\ pc' = "stopped"
  /\ UNCHANGED <<files, todo, got, n, out, failed, paths, prev, cur, first, sig>>
Stop ==
  /\ pc = "select" /\ sig
  /\ pc' = "stopped"
  /\ UNCHANGED <<files, todo, got, n, out, failed, paths, prev, cur, first, sig>>

Stat ==
  /\ pc = "stat" /\ todo # {}
  /\ \E f \in todo :
       /\ todo' = todo \ {f}
       /\ cur' = [g \in DOMAIN cur \cup {f} |-> IF g = f THEN text[f] ELSE cur[g]]
  /\ UNCHANGED <<files, pc, got, n, out, failed, paths, prev, first, sig>>

Generate ==
  /\ pc' = "read" /\ todo' = Read /\ got' = None
  /\ UNCHANGED <<files, n, out, failed, paths, cur, first, sig>>
Keep(nf) ==
  /\ prev' = cur /\ first' = nf /\ pc' = "select"
  /\ UNCHANGED <<files, todo, got, n, out, failed, paths, cur, sig>>
\* Mutant: a change of one file alone is taken over without a generation.
CompareAll ==
  /\ pc = "stat" /\ todo = {}
  /\ IF prev = None THEN Keep(cur)
     ELSE IF \A f \in paths : prev[f] # cur[f] THEN Generate /\ prev' = cur
     ELSE Keep(first)
\* The first snapshot is kept, a later one is compared with the one before.
Compare ==
  /\ pc = "stat" /\ todo = {}
  /\ IF prev = None THEN Keep(cur)
     ELSE IF prev # cur THEN Generate /\ prev' = cur
     ELSE Keep(first)

RunWatch ==
  ReadFile \/ Refuse \/ WriteError \/ WriteFile \/ WatchedFiles \/ Tick \/ Stop \/ Stat \/ Compare

\* The program has ended.
Ended == pc \in {"stopped", "exit"} /\ UNCHANGED vars
Next == Edit \/ Interrupt \/ RunWatch \/ Ended
Spec == Init /\ [][Next]_vars

\* The program runs, and select, which picks at random, does not pick the tick for
\* ever when the signal is there.
FairSpec == Spec /\ WF_vars(RunWatch) /\ SF_vars(Stop)
-----------------------------------------------------------------------------

\* Once it has regenerated and reported no error, every output is at least as new
\* as the snapshot that later ones are compared with: an edit made meanwhile is
\* not mistaken for one that has been seen.
NotBehind ==
  pc = "select" /\ ~failed /\ prev # first =>
    \A o \in 1..Outputs, f \in Read \cap paths : out[o][f] >= prev[f]

AtRest == pc \in {"stopped", "exit"}
Generated(f) == \A o \in 1..Outputs : out[o][f] = text[f]

\* No edit of a watched file is lost: when the developer is done, the outputs come
\* from the files as they are, unless the last generation reported an error.  The
\* exceptions are a file last saved before the first snapshot, which the first
\* generation may have read before that, and a file that is gone: deleted, restored
\* and deleted again between two polls, it has the zero time in both snapshots.
Caught ==
  <>[](\/ AtRest \/ failed
       \/ \A f \in Read \cap DOMAIN first :
            text[f] \in {first[f], 0} \/ Generated(f))

\* An interrupt ends it, also when a regeneration is under way.
Stops == sig ~> AtRest

\* The claim of the -watch flag: "watch the board's yaml inputs and regenerate on
\* change".  Edits before the first snapshot apart, the outputs follow all yaml
\* files that the board is generated from.
FollowsInputs ==
  [](prev = None => edits = 1)
    => <>[](AtRest \/ failed \/ \A f \in Read : Generated(f))
=============================================================================
