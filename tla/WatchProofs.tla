----------------------------- MODULE WatchProofs -----------------------------
(***************************************************************************)
(* Proof that runWatch does not take an edit that its generation missed for  *)
(* one that it has seen, for any number of edits and outputs.                *)
(***************************************************************************)
EXTENDS Watch, TLAPS

\* Versions only grow, except that a file may be gone: what was seen of a file
\* is not newer than the file.
Seen(snap) ==
  \A f \in DOMAIN snap : /\ f \in Files /\ snap[f] \in Nat /\ snap[f] <= edits
                         /\ text[f] = 0 \/ snap[f] <= text[f]
TypeOK ==
  /\ edits \in Nat /\ text \in [Files -> Nat] /\ \A f \in Files : text[f] <= edits
  /\ n \in 0..(Outputs - 1) /\ out \in [1..Outputs -> [Read -> Nat]]
  /\ got \in [DOMAIN got -> Nat]
  /\ paths \subseteq Files
  /\ pc \in {"read", "write", "glob", "stat", "select", "stopped", "exit"}
  /\ failed \in BOOLEAN

\* How far each loop is.
Progressing ==
  /\ pc = "read" => todo \subseteq Read /\ DOMAIN got = Read \ todo
  /\ pc = "write" => DOMAIN got = Read /\ \A o \in 1..n : out[o] = got
  /\ pc = "stat" => todo \subseteq paths /\ DOMAIN cur = paths \ todo
\* The snapshots are of the watched files; there is none before they are listed.
Snapshots ==
  /\ Seen(prev) /\ Seen(cur)
  /\ prev = None \/ DOMAIN prev = paths
  /\ prev = None => first = None
  /\ ~Started => prev = None
  /\ pc = "glob" => prev = None
  /\ pc \in {"stat", "select"} => Started
  /\ pc = "select" => prev # None
  /\ pc \in {"read", "write"} /\ Started => prev # None
\* A generation reads every file after the snapshot that started it, and no later
\* snapshot is taken over without one.
Newer ==
  /\ pc \in {"read", "write"} => \A f \in DOMAIN got \cap DOMAIN prev : got[f] >= prev[f]
  /\ pc \in {"stat", "select"} /\ ~failed /\ prev # first =>
       \A o \in 1..Outputs, f \in Read \cap DOMAIN prev : out[o][f] >= prev[f]

IInv == TypeOK /\ Progressing /\ Snapshots /\ Newer

-----------------------------------------------------------------------------
LEMMA Names == Read \subseteq Files /\ "design.yaml" \in Files /\ "shared.yaml" \in Files
BY DEF Read, Files

LEMMA NoneIsEmpty == DOMAIN None = {} /\ None \in [{} -> Nat]
BY DEF None

LEMMA InitIInv == Init => IInv
<1> SUFFICES ASSUME Init PROVE IInv OBVIOUS
<1> USE OutputsAssumption
<1>1. TypeOK
  <2>1. edits \in Nat /\ text \in [Files -> Nat] /\ \A f \in Files : text[f] <= edits
    BY DEF Init
  <2>2. n \in 0..(Outputs - 1) BY DEF Init
  <2>3. out \in [1..Outputs -> [Read -> Nat]] BY DEF Init
  <2>4. got \in [DOMAIN got -> Nat] BY NoneIsEmpty DEF Init
  <2>5. paths \subseteq Files /\ pc = "read" /\ failed \in BOOLEAN BY DEF Init
  <2> QED BY <2>1, <2>2, <2>3, <2>4, <2>5 DEF TypeOK
<1>2. Progressing BY NoneIsEmpty DEF Init, Progressing
<1>3. Snapshots BY NoneIsEmpty DEF Init, Snapshots, Seen, Started
<1>4. Newer BY NoneIsEmpty DEF Init, Newer
<1> QED BY <1>1, <1>2, <1>3, <1>4 DEF IInv

\* The developer only makes files newer, or takes them away.
LEMMA EditStep == ASSUME IInv, Edit PROVE IInv'
<1>1. PICK f \in Files, gone \in BOOLEAN :
        text' = [text EXCEPT ![f] = IF gone THEN 0 ELSE edits + 1]
  BY DEF Edit
<1>2. edits' = edits + 1 BY DEF Edit
<1>3. UNCHANGED <<pc, todo, got, n, out, failed, paths, prev, cur, first, sig>> BY DEF Edit
<1>4. TypeOK' BY <1>1, <1>2, <1>3 DEF IInv, TypeOK
<1>5. Seen(prev)' BY <1>1, <1>2, <1>3 DEF IInv, TypeOK, Snapshots, Seen
<1>6. Seen(cur)' BY <1>1, <1>2, <1>3 DEF IInv, TypeOK, Snapshots, Seen
<1>7. Snapshots' BY <1>3, <1>5, <1>6 DEF IInv, Snapshots, Started
<1>8. Progressing' /\ Newer' BY <1>3 DEF IInv, Progressing, Newer
<1> QED BY <1>4, <1>7, <1>8 DEF IInv

\* A generation that returns, with or without an error.
LEMMA Returned ==
  ASSUME IInv, NEW err \in BOOLEAN, Return(err), pc \in {"read", "write"},
         UNCHANGED <<files, paths, prev, cur, first>>
  PROVE  /\ Snapshots'
         /\ pc' \in {"select", "exit", "glob"} /\ failed' = err
         /\ pc' = "select" => DOMAIN prev = paths
<1>1. UNCHANGED <<text, edits, paths, prev, cur, first>> BY DEF files
<1>2. Seen(prev)' /\ Seen(cur)' BY <1>1 DEF IInv, Snapshots, Seen
<1> QED BY <1>1, <1>2 DEF IInv, Snapshots, Return, Started

LEMMA ReadStep == ASSUME IInv, ReadFile PROVE IInv'
<1>1. PICK f \in todo :
        IF text[f] = 0
          THEN Return(TRUE) /\ todo' = {} /\ UNCHANGED <<got, n>>
          ELSE /\ todo' = todo \ {f}
               /\ got' = [g \in DOMAIN got \cup {f} |-> IF g = f THEN text[f] ELSE got[g]]
               /\ IF todo = {f} THEN pc' = "write" /\ n' = 0 ELSE UNCHANGED <<pc, n>>
               /\ UNCHANGED failed
  BY DEF ReadFile
<1>2. pc = "read" /\ UNCHANGED <<files, out, paths, prev, cur, first>> BY DEF ReadFile
<1>3. UNCHANGED <<text, edits>> BY <1>2 DEF files
<1>4. f \in Files BY <1>2, Names DEF IInv, Progressing
<1>5. CASE text[f] = 0
  <2>1. Return(TRUE) /\ UNCHANGED <<got, n>> BY <1>1, <1>5
  <2>2. Snapshots' /\ pc' \in {"select", "exit", "glob"} /\ failed' = TRUE
    BY <1>2, <2>1, Returned
  <2>3. TypeOK' BY <1>2, <1>3, <2>1, <2>2 DEF IInv, TypeOK
  <2>4. Progressing' /\ Newer' BY <2>2 DEF Progressing, Newer
  <2> QED BY <2>2, <2>3, <2>4 DEF IInv
<1>6. CASE text[f] # 0
  <2>1. /\ todo' = todo \ {f} /\ failed' = failed
        /\ got' = [g \in DOMAIN got \cup {f} |-> IF g = f THEN text[f] ELSE got[g]]
        /\ IF todo = {f} THEN pc' = "write" /\ n' = 0 ELSE pc' = pc /\ n' = n
    BY <1>1, <1>6
  <2>2. text[f] \in Nat BY <1>4 DEF IInv, TypeOK
  <2>3. DOMAIN got' = DOMAIN got \cup {f} /\ got' \in [DOMAIN got' -> Nat]
    BY <2>1, <2>2 DEF IInv, TypeOK
  <2>4. TypeOK'
    BY <1>2, <1>3, <2>1, <2>3, OutputsAssumption DEF IInv, TypeOK
  <2>5. Progressing' BY <1>2, <2>1, <2>3 DEF IInv, Progressing
  <2>6. Snapshots'
    <3>1. Seen(prev)' /\ Seen(cur)' BY <1>2, <1>3 DEF IInv, Snapshots, Seen
    <3> QED BY <1>2, <2>1, <3>1 DEF IInv, Snapshots, Started
  <2>7. \A g \in DOMAIN got' \cap DOMAIN prev : got'[g] >= prev[g]
    <3>1. f \in DOMAIN prev => prev[f] \in Nat /\ prev[f] <= text[f]
      BY <1>6 DEF IInv, Snapshots, Seen
    <3> QED BY <1>2, <2>1, <2>2, <3>1 DEF IInv, Newer
  <2>8. Newer' BY <1>2, <2>1, <2>7 DEF Newer
  <2> QED BY <2>4, <2>5, <2>6, <2>8 DEF IInv
<1> QED BY <1>5, <1>6

LEMMA ErrorStep == ASSUME IInv, Refuse \/ WriteError PROVE IInv'
<1>1. /\ pc = "write" /\ Return(TRUE)
      /\ UNCHANGED <<files, todo, got, n, out, paths, prev, cur, first, sig>>
  BY DEF Refuse, WriteError
<1>2. Snapshots' /\ pc' \in {"select", "exit", "glob"} /\ failed' = TRUE
  BY <1>1, Returned
<1>3. TypeOK' BY <1>1, <1>2 DEF IInv, TypeOK, files
<1>4. Progressing' /\ Newer' BY <1>2 DEF Progressing, Newer
<1> QED BY <1>2, <1>3, <1>4 DEF IInv

LEMMA WriteStep == ASSUME IInv, WriteFile PROVE IInv'
<1> USE OutputsAssumption
<1>1. /\ pc = "write" /\ out' = [out EXCEPT ![n + 1] = got]
      /\ UNCHANGED <<files, todo, got, paths, prev, cur, first, sig>>
  BY DEF WriteFile
<1>2. UNCHANGED <<text, edits>> BY <1>1 DEF files
<1>3. n + 1 \in 1..Outputs /\ n \in Nat BY DEF IInv, TypeOK
<1>4. got \in [Read -> Nat] BY <1>1 DEF IInv, TypeOK, Progressing
<1>5. out' \in [1..Outputs -> [Read -> Nat]] BY <1>1, <1>4 DEF IInv, TypeOK
<1>6. \A o \in 1..(n + 1) : out'[o] = got
  BY <1>1, <1>3 DEF IInv, TypeOK, Progressing
<1>7. CASE n + 1 = Outputs
  <2>1. n' = 0 /\ Return(FALSE) BY <1>7 DEF WriteFile
  <2>2. /\ Snapshots' /\ pc' \in {"select", "exit", "glob"} /\ failed' = FALSE
    BY <1>1, <2>1, Returned
  <2>3. TypeOK'
    <3>1. n' \in 0..(Outputs - 1) BY <2>1
    <3>2. edits' = edits /\ text' = text /\ got' = got /\ paths' = paths BY <1>1, <1>2
    <3>3. /\ pc' \in {"read", "write", "glob", "stat", "select", "stopped", "exit"}
          /\ failed' \in BOOLEAN
      BY <2>2
    <3> QED BY <1>5, <3>1, <3>2, <3>3 DEF IInv, TypeOK
  <2>4. Progressing' BY <2>2 DEF Progressing
  <2>5. \A o \in 1..Outputs, f \in Read \cap DOMAIN prev : out'[o][f] >= prev[f]
    BY <1>1, <1>4, <1>6, <1>7 DEF IInv, Newer
  <2>6. Newer' BY <1>1, <2>2, <2>5 DEF Newer
  <2> QED BY <2>2, <2>3, <2>4, <2>6 DEF IInv
<1>8. CASE n + 1 # Outputs
  <2>1. n' = n + 1 /\ pc' = pc /\ failed' = failed BY <1>8 DEF WriteFile
  <2>2. n' \in 0..(Outputs - 1) BY <1>3, <1>8, <2>1
  <2>3. TypeOK' BY <1>1, <1>2, <1>5, <2>1, <2>2 DEF IInv, TypeOK
  <2>4. Progressing' BY <1>1, <1>6, <2>1 DEF IInv, Progressing
  <2>5. Seen(prev)' /\ Seen(cur)' BY <1>1, <1>2 DEF IInv, Snapshots, Seen
  <2>6. Snapshots' BY <1>1, <2>1, <2>5 DEF IInv, Snapshots, Started
  <2>7. Newer' BY <1>1, <2>1 DEF IInv, Newer
  <2> QED BY <2>3, <2>4, <2>6, <2>7 DEF IInv
<1> QED BY <1>7, <1>8

LEMMA GlobStep == ASSUME IInv, WatchedFiles PROVE IInv'
<1>1. /\ pc = "glob" /\ pc' = "stat" /\ paths' = Glob /\ todo' = Glob /\ cur' = None
      /\ UNCHANGED <<text, edits, got, n, out, failed, prev, first, sig>>
  BY DEF WatchedFiles, files
<1>2. Glob \subseteq Files /\ Glob # {} BY Names DEF Glob
<1>3. prev = None /\ first = None BY <1>1 DEF IInv, Snapshots
<1>4. TypeOK' BY <1>1, <1>2 DEF IInv, TypeOK
<1>5. Progressing' BY <1>1, NoneIsEmpty DEF Progressing
<1>6. Seen(prev)' /\ Seen(cur)' BY <1>1, <1>3, NoneIsEmpty DEF Seen
<1>7. Snapshots' BY <1>1, <1>2, <1>3, <1>6 DEF Snapshots, Started
<1>8. Newer' BY <1>1, <1>3 DEF Newer
<1> QED BY <1>4, <1>5, <1>7, <1>8 DEF IInv

LEMMA TickStep == ASSUME IInv, Tick PROVE IInv'
<1>1. /\ pc = "select" /\ pc' = "stat" /\ todo' = paths /\ cur' = None
      /\ UNCHANGED <<text, edits, got, n, out, failed, paths, prev, first, sig>>
  BY DEF Tick, files
<1>2. TypeOK' BY <1>1 DEF IInv, TypeOK
<1>3. Progressing' BY <1>1, NoneIsEmpty DEF Progressing
<1>4. Seen(prev)' /\ Seen(cur)' BY <1>1, NoneIsEmpty DEF IInv, Snapshots, Seen
<1>5. Snapshots' BY <1>1, <1>4 DEF IInv, Snapshots, Started
<1>6. Newer' BY <1>1 DEF IInv, Newer
<1> QED BY <1>2, <1>3, <1>5, <1>6 DEF IInv

LEMMA StatStep == ASSUME IInv, Stat PROVE IInv'
<1>1. PICK f \in todo :
        /\ todo' = todo \ {f}
        /\ cur' = [g \in DOMAIN cur \cup {f} |-> IF g = f THEN text[f] ELSE cur[g]]
  BY DEF Stat
<1>2. /\ pc = "stat"
      /\ UNCHANGED <<text, edits, pc, got, n, out, failed, paths, prev, first, sig>>
  BY DEF Stat, files
<1>3. f \in Files /\ f \in paths BY <1>2 DEF IInv, TypeOK, Progressing
<1>4. TypeOK' BY <1>2 DEF IInv, TypeOK
<1>5. Progressing' BY <1>1, <1>2, <1>3 DEF IInv, Progressing
<1>6. Seen(cur)'
  <2>1. text[f] \in Nat /\ text[f] <= edits BY <1>3 DEF IInv, TypeOK
  <2> QED BY <1>1, <1>2, <1>3, <2>1 DEF IInv, Snapshots, Seen
<1>7. Seen(prev)' BY <1>2 DEF IInv, Snapshots, Seen
<1>8. Snapshots' BY <1>2, <1>6, <1>7 DEF IInv, Snapshots, Started
<1>9. Newer' BY <1>2 DEF IInv, Newer
<1> QED BY <1>4, <1>5, <1>8, <1>9 DEF IInv

LEMMA CompareStep == ASSUME IInv, Compare PROVE IInv'
<1>1. pc = "stat" /\ todo = {} /\ UNCHANGED <<text, edits, n, out, failed, paths, cur, sig>>
  BY DEF Compare, Keep, Generate, files
<1>2. DOMAIN cur = paths /\ paths # {} BY <1>1 DEF IInv, Progressing, Snapshots, Started
<1>3. cur # None BY <1>2, NoneIsEmpty
<1>4. prev' = cur BY DEF Compare, Keep
<1>5. Seen(prev)' /\ Seen(cur)' BY <1>1, <1>4 DEF IInv, Snapshots, Seen
\* Nothing has changed, or this is the first snapshot.
<1>6. CASE prev = None \/ prev = cur
  <2>1. pc' = "select" /\ got' = got /\ first' = IF prev = None THEN cur ELSE first
    BY <1>6 DEF Compare, Keep
  <2>2. TypeOK' BY <1>1, <2>1 DEF IInv, TypeOK
  <2>3. Progressing' BY <2>1 DEF Progressing
  <2>4. Snapshots' BY <1>1, <1>2, <1>3, <1>4, <1>5, <2>1 DEF Snapshots, Started
  <2>5. prev = None => Newer' BY <1>4, <2>1 DEF Newer
  <2>6. ASSUME prev # None PROVE Newer'
    <3>1. prev' = prev /\ first' = first BY <1>4, <1>6, <2>1, <2>6
    <3> QED BY <1>1, <2>1, <3>1 DEF IInv, Newer
  <2> QED BY <2>2, <2>3, <2>4, <2>5, <2>6 DEF IInv
<1>7. CASE prev # None /\ prev # cur
  <2>1. pc' = "read" /\ todo' = Read /\ got' = None /\ first' = first
    BY <1>7 DEF Compare, Generate
  <2>2. TypeOK' BY <1>1, <2>1, NoneIsEmpty DEF IInv, TypeOK
  <2>3. Progressing' BY <2>1, NoneIsEmpty DEF Progressing
  <2>4. Snapshots' BY <1>1, <1>2, <1>3, <1>4, <1>5, <2>1 DEF Snapshots, Started
  <2>5. Newer' BY <2>1, NoneIsEmpty DEF Newer
  <2> QED BY <2>2, <2>3, <2>4, <2>5 DEF IInv
<1> QED BY <1>6, <1>7

LEMMA QuietStep ==
  ASSUME IInv, Interrupt \/ Stop \/ UNCHANGED vars PROVE IInv'
<1>1. UNCHANGED <<text, edits, todo, got, n, out, failed, paths, prev, cur, first>>
  BY DEF Interrupt, Stop, vars, files
<1>2. pc' = pc \/ pc' = "stopped" BY DEF Interrupt, Stop, vars
<1>3. TypeOK' BY <1>1, <1>2 DEF IInv, TypeOK
<1>4. Seen(prev)' /\ Seen(cur)' BY <1>1 DEF IInv, Snapshots, Seen
<1>5. Snapshots' BY <1>1, <1>2, <1>4 DEF IInv, Snapshots, Started
<1>6. Progressing' /\ Newer' BY <1>1, <1>2 DEF IInv, Progressing, Newer
<1> QED BY <1>3, <1>5, <1>6 DEF IInv

-----------------------------------------------------------------------------
\* What each loop of runWatch knows of the files: how far it is, and that a
\* generation reads everything after the snapshot that started it.
THEOREM Invariance == Spec => []IInv
<1>1. IInv /\ [Next]_vars => IInv'
  <2> SUFFICES ASSUME IInv, [Next]_vars PROVE IInv' OBVIOUS
  <2> QED BY EditStep, ReadStep, ErrorStep, WriteStep, GlobStep, TickStep, StatStep,
             CompareStep, QuietStep DEF Next, RunWatch, Ended
<1> QED BY <1>1, InitIInv, PTL DEF Spec

\* For any number of edits and outputs: after a regeneration without an error, the
\* outputs are at least as new as the snapshot that the next poll is compared with,
\* so that an edit made meanwhile makes a difference (runWatch).
THEOREM NeverBehind == Spec => []NotBehind
<1>1. ASSUME IInv, pc = "select", ~failed, prev # first,
             NEW o \in 1..Outputs, NEW f \in Read \cap paths
      PROVE  out[o][f] >= prev[f]
  <2>1. DOMAIN prev = paths BY <1>1 DEF IInv, Snapshots
  <2> QED BY <1>1, <2>1 DEF IInv, Newer
<1>2. IInv => NotBehind BY <1>1 DEF NotBehind
<1> QED BY <1>2, Invariance, PTL
=============================================================================
