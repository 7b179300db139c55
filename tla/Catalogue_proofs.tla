-------------------------- MODULE Catalogue_proofs --------------------------
(***************************************************************************)
(* Proofs about Catalogue, for any parts, any number of fetches, failures  *)
(* and blocks: a fetch that is alone with its part never leaves half a     *)
(* file under the part's name, and what fetch and check report is so.      *)
(***************************************************************************)
EXTENDS Catalogue, FiniteSetTheorems, TLAPS

(* What a step needs to know of the constants. *)
LEMMA ConstantFacts ==
    /\ Len(Parts) \in Nat
    /\ \A i \in 1 .. Len(Parts) : Parts[i] \in Ids
    /\ \A id \in Ids : \E i \in 1 .. Len(Parts) : Parts[i] = id
    /\ Vendor \subseteq Ids /\ Vendor \cap Local = {} /\ Vendor \cap Scripted = {}
    /\ Blocks \in Nat \ {0} /\ MaxStops \in Nat /\ NoFile \notin Files
BY CatalogueAssumption DEF Ids, Vendor

-----------------------------------------------------------------------------
(* Type correctness. *)

(* A file of one part that gets other blocks. *)
LEMMA ContentStep ==
  ASSUME TypeOK, NEW id \in Vendor, NEW f \in Files, NEW b \in SUBSET Whole
  PROVE  [content EXCEPT ![id][f] = b] \in [Vendor -> [Files -> SUBSET Whole]]
BY DEF TypeOK

LEMMA TypeInit == Init => TypeOK
<1> SUFFICES ASSUME Init PROVE TypeOK
  OBVIOUS
<1> QED
  BY ConstantFacts DEF Init, TypeOK

LEMMA TypeStep == TypeOK /\ [Next]_vars => TypeOK'
<1> SUFFICES ASSUME TypeOK, [Next]_vars PROVE TypeOK'
  OBVIOUS
<1> USE ConstantFacts
<1>1. ASSUME NEW p \in Fetchers, Begin(p) PROVE TypeOK'
  BY <1>1 DEF TypeOK, Begin, Running, Current, disk, others
<1>2. ASSUME NEW p \in Fetchers, Skip(p) PROVE TypeOK'
  BY <1>2 DEF TypeOK, Skip, AtPart, Current, disk, others
<1>3. ASSUME NEW p \in Fetchers, Connect(p) PROVE TypeOK'
  BY <1>3 DEF TypeOK, Connect, AtPart, Current, disk, others
<1>4. ASSUME NEW p \in Fetchers, Open(p) PROVE TypeOK'
  <2>1. Current(p) \in Vendor
    BY <1>4 DEF TypeOK, Open
  <2>2. ASSUME NEW f \in Files, Opens(p, Current(p), f),
               shared' \subseteq Vendor, UNCHANGED <<target, at, others>>
        PROVE  TypeOK'
    <3>1. content' \in [Vendor -> [Files -> SUBSET Whole]]
      BY <2>1, <2>2, ContentStep DEF Opens
    <3>2. \A q \in Fetchers :
            /\ pc'[q] \in {"connect", "write", "replace"} =>
                  at'[q] <= Len(Parts) /\ Current(q)' \in Vendor
            /\ pc'[q] = "write" => file'[q] # NoFile
      <4> SUFFICES ASSUME NEW q \in Fetchers
                   PROVE  /\ pc'[q] \in {"connect", "write", "replace"} =>
                                at'[q] <= Len(Parts) /\ Current(q)' \in Vendor
                          /\ pc'[q] = "write" => file'[q] # NoFile
        OBVIOUS
      <4>1. CASE q = p
        BY <1>4, <2>1, <2>2, <4>1 DEF TypeOK, Open, Opens, Current
      <4>2. CASE q # p
        BY <2>2, <4>2 DEF TypeOK, Opens, Current
      <4> QED
        BY <4>1, <4>2
    <3>3. /\ partial' \in [Vendor -> Files \cup {NoFile}]
          /\ pc' \in [Fetchers -> {"idle", "fetch", "connect", "write", "replace",
                                   "done", "lost", "stopped"}]
          /\ file' \in [Fetchers -> Files \cup {NoFile}]
          /\ offset' \in [Fetchers -> 0 .. Blocks]
      BY <2>1, <2>2 DEF TypeOK, Opens
    <3> QED
      BY <2>2, <3>1, <3>2, <3>3 DEF TypeOK, others
  <2>3. CASE partial[Current(p)] = NoFile
    <3> DEFINE g == CHOOSE f \in Unused(Current(p)) : TRUE
    <3>1. g \in Files /\ Opens(p, Current(p), g)
      BY <1>4, <2>3 DEF Open, Unused
    <3> HIDE DEF g
    <3> QED
      BY <1>4, <2>2, <2>3, <3>1 DEF Open, TypeOK
  <2>4. CASE partial[Current(p)] # NoFile
    BY <1>4, <2>1, <2>2, <2>4 DEF Open, TypeOK
  <2> QED
    BY <2>3, <2>4
<1>5. ASSUME NEW p \in Fetchers, Write(p) PROVE TypeOK'
  <2> DEFINE new == content[Current(p)][file[p]] \cup {offset[p] + 1}
  <2>1. Current(p) \in Vendor /\ file[p] \in Files /\ offset[p] \in Nat
    BY <1>5 DEF TypeOK, Write
  <2>2. offset[p] + 1 \in Whole /\ offset[p] + 1 \in 0 .. Blocks
    BY <1>5, <2>1 DEF Write, Whole
  <2>3. new \in SUBSET Whole
    BY <2>1, <2>2 DEF TypeOK
  <2>4. content' = [content EXCEPT ![Current(p)][file[p]] = new]
    BY <1>5, <2>1 DEF Write, TypeOK
  <2>5. content' \in [Vendor -> [Files -> SUBSET Whole]]
    BY <2>1, <2>3, <2>4, ContentStep
  <2> QED
    BY <1>5, <2>2, <2>5 DEF TypeOK, Write, Current, others
<1>6. ASSUME NEW p \in Fetchers, Close(p) PROVE TypeOK'
  BY <1>6 DEF TypeOK, Close, Closes, Current, disk, others
<1>7. ASSUME NEW p \in Fetchers, Replace(p) PROVE TypeOK'
  <2>1. /\ Current(p) \in Vendor /\ at[p] \in 1 .. Len(Parts)
        /\ UNCHANGED <<content, shared, file, offset, others>>
    BY <1>7 DEF TypeOK, Replace
  <2>2. CASE partial[Current(p)] # NoFile
    <3>1. /\ target' = [target EXCEPT ![Current(p)] = partial[Current(p)]]
          /\ partial' = [partial EXCEPT ![Current(p)] = NoFile]
          /\ pc' = [pc EXCEPT ![p] = "fetch"]
          /\ at' = [at EXCEPT ![p] = @ + 1]
      BY <1>7, <2>2 DEF Replace
    <3>2. /\ target' \in [Vendor -> Files \cup {NoFile}]
          /\ partial' \in [Vendor -> Files \cup {NoFile}]
          /\ at' \in [Fetchers -> 1 .. Len(Parts) + 1]
      BY <2>1, <3>1 DEF TypeOK
    <3> QED
      BY <2>1, <3>1, <3>2 DEF TypeOK, Current, others
  <2>3. CASE partial[Current(p)] = NoFile
    <3>1. pc' = [pc EXCEPT ![p] = "lost"] /\ UNCHANGED <<target, partial, at>>
      BY <1>7, <2>3 DEF Replace
    <3> QED
      BY <2>1, <3>1 DEF TypeOK, Current, others
  <2> QED
    BY <2>2, <2>3
<1>8. ASSUME NEW p \in Fetchers, Finish(p) PROVE TypeOK'
  BY <1>8 DEF TypeOK, Finish, Current, disk, others
<1>9. ASSUME NEW p \in Fetchers, Stop(p) PROVE TypeOK'
  BY <1>9 DEF TypeOK, Stop, Closes, Running, Current, disk, others
<1>10. CASE BeginCheck
  BY <1>10 DEF TypeOK, BeginCheck, Current, disk, program
<1>11. CASE Look
  <2> DEFINE id == Parts[check.at]
             absent == check.absent \/ (id \notin Scripted /\ ~Exists(id))
  <2>1. absent \in BOOLEAN
    OBVIOUS
  <2>2. check' = [check EXCEPT !.at = check.at + 1, !.absent = absent]
    BY <1>11 DEF Look, TypeOK
  <2>3. check.at + 1 \in 1 .. Len(Parts) + 1
    BY <1>11 DEF Look, TypeOK
  <2>4. check' \in [pc : {"idle", "looking", "zero", "one"},
                   at : 1 .. Len(Parts) + 1, absent : BOOLEAN]
    <3> HIDE DEF absent
    <3> QED
      BY <2>1, <2>2, <2>3 DEF TypeOK
  <2> QED
    BY <1>11, <2>4 DEF TypeOK, Look, Current, disk, program
<1>12. CASE EndCheck
  BY <1>12 DEF TypeOK, EndCheck, Current, disk, program
<1>13. CASE UNCHANGED vars
  BY <1>13 DEF TypeOK, Current, vars, disk, program, others
<1> QED
  BY <1>1, <1>2, <1>3, <1>4, <1>5, <1>6, <1>7, <1>8, <1>9, <1>10, <1>11, <1>12, <1>13
     DEF Next, Fetch

(* The variables of the catalogue have their types, whoever fails where;   *)
(* a process that is at a download is at a part that has one.              *)
THEOREM TypeCorrect == Spec => []TypeOK
BY TypeInit, TypeStep, PTL DEF Spec

-----------------------------------------------------------------------------
(* What is on disk.  A part that no two fetches have shared has one writer  *)
(* at most, whose file is the one that ".part" names, and which holds what  *)
(* the writer has written; and the file under the part's name is another,   *)
(* that nobody writes any more.                                             *)
Alone(id) ==
  /\ \A p, q \in Writers(id) : p = q
  /\ \A p \in Writers(id) :
       /\ partial[id] # NoFile
       /\ pc[p] = "write" => /\ file[p] = partial[id]
                             /\ 1 .. offset[p] \subseteq content[id][partial[id]]
       /\ pc[p] = "replace" => content[id][partial[id]] = Whole
  /\ target[id] # NoFile => Complete(id) /\ target[id] # partial[id]

IInv == TypeOK /\ \A id \in Vendor : id \notin shared => Alone(id)

LEMMA AloneInit == Init => IInv
<1> SUFFICES ASSUME Init PROVE IInv
  OBVIOUS
<1>1. TypeOK
  BY TypeInit
<1>2. ASSUME NEW id \in Vendor PROVE Alone(id)
  BY <1>2 DEF Init, Alone, Writers
<1> QED
  BY <1>1, <1>2 DEF IInv

(* The part of another process, or of none, is left as it is. *)
LEMMA AloneElsewhere ==
  ASSUME NEW id \in Vendor, Alone(id),
         NEW p \in Fetchers, p \notin Writers(id), p \notin Writers(id)',
         \A q \in Fetchers \ {p} : /\ pc'[q] = pc[q] /\ at'[q] = at[q]
                                   /\ file'[q] = file[q] /\ offset'[q] = offset[q],
         target'[id] = target[id], partial'[id] = partial[id], content'[id] = content[id]
  PROVE  Alone(id)'
<1>1. ASSUME NEW q \in Fetchers \ {p}
      PROVE  /\ q \in Writers(id)' <=> q \in Writers(id)
             /\ pc'[q] = pc[q] /\ file'[q] = file[q] /\ offset'[q] = offset[q]
  BY DEF Writers, Current
<1>2. \A q \in Writers(id)' : /\ q \in Writers(id) /\ pc'[q] = pc[q]
                              /\ file'[q] = file[q] /\ offset'[q] = offset[q]
  BY <1>1 DEF Writers
<1> QED
  BY <1>2 DEF Alone, Complete

LEMMA AloneStep == IInv /\ [Next]_vars => IInv'
<1> SUFFICES ASSUME IInv, [Next]_vars PROVE IInv'
  OBVIOUS
<1>0. TypeOK /\ TypeOK'
  BY TypeStep DEF IInv
<1> SUFFICES ASSUME NEW id \in Vendor, id \notin shared' PROVE Alone(id)'
  BY <1>0 DEF IInv
<1>a. shared \subseteq shared'
  BY DEF Next, Fetch, Begin, Skip, Connect, Open, Write, Close, Closes, Replace,
         Finish, Stop, BeginCheck, Look, EndCheck, vars, disk, program, others
<1>b. id \notin shared /\ Alone(id)
  BY <1>a DEF IInv
<1> USE ConstantFacts
<1>1. ASSUME NEW p \in Fetchers, Begin(p) PROVE Alone(id)'
  <2>1. p \notin Writers(id) /\ p \notin Writers(id)'
    BY <1>0, <1>1 DEF Begin, Running, Writers, TypeOK
  <2> QED
    BY <1>0, <1>1, <1>b, <2>1, AloneElsewhere DEF Begin, disk, TypeOK
<1>2. ASSUME NEW p \in Fetchers, Skip(p) PROVE Alone(id)'
  <2>1. p \notin Writers(id) /\ p \notin Writers(id)'
    BY <1>0, <1>2 DEF Skip, AtPart, Writers, TypeOK
  <2> QED
    BY <1>0, <1>2, <1>b, <2>1, AloneElsewhere DEF Skip, disk, TypeOK
<1>3. ASSUME NEW p \in Fetchers, Connect(p) PROVE Alone(id)'
  <2>1. p \notin Writers(id) /\ p \notin Writers(id)'
    BY <1>0, <1>3 DEF Connect, AtPart, Writers, TypeOK
  <2> QED
    BY <1>0, <1>3, <1>b, <2>1, AloneElsewhere DEF Connect, disk, TypeOK
<1>4. ASSUME NEW p \in Fetchers, Open(p) PROVE Alone(id)'
  <2>0. /\ pc[p] = "connect" /\ Current(p) \in Vendor
        /\ UNCHANGED <<target, at, others>>
    BY <1>0, <1>4 DEF Open, TypeOK
  <2>1. CASE Current(p) # id
    <3>1. p \notin Writers(id) /\ p \notin Writers(id)'
      BY <1>0, <2>0, <2>1 DEF Writers, Current, TypeOK
    <3>2. /\ partial'[id] = partial[id] /\ content'[id] = content[id]
          /\ \A q \in Fetchers \ {p} : /\ pc'[q] = pc[q] /\ file'[q] = file[q]
                                      /\ offset'[q] = offset[q]
      BY <1>0, <1>4, <2>0, <2>1 DEF Open, Opens, TypeOK
    <3> QED
      BY <1>b, <2>0, <3>1, <3>2, AloneElsewhere
  <2>2. CASE Current(p) = id
    <3>1. Writers(id) = {}
      BY <1>4, <1>b, <2>0, <2>2 DEF Open, Alone
    <3>2. PICK f \in Files : Opens(p, id, f) /\ f # target[id]
      <4>1. CASE partial[id] = NoFile
        <5> DEFINE g == CHOOSE f \in Unused(id) : TRUE
        <5>1. g \in Unused(id) /\ Opens(p, id, g)
          BY <1>4, <2>2, <4>1 DEF Open
        <5> QED
          BY <5>1 DEF Unused
      <4>2. CASE partial[id] # NoFile
        BY <1>0, <1>4, <1>b, <2>2, <4>2 DEF Open, Alone, TypeOK
      <4> QED
        BY <4>1, <4>2
    <3>3. /\ partial'[id] = f /\ content'[id][f] = {} /\ file'[p] = f /\ pc'[p] = "write"
          /\ \A g \in Files \ {f} : content'[id][g] = content[id][g]
          /\ \A q \in Fetchers \ {p} : pc'[q] = pc[q]
      BY <1>0, <3>2 DEF Opens, TypeOK
    <3>4. \A q \in Writers(id)' : q = p
      BY <2>0, <3>1, <3>3 DEF Writers, Current
    <3>5. offset'[p] = 0
      BY <1>0, <3>2 DEF Opens, TypeOK
    <3>6. 1 .. offset'[p] = {}
      BY <3>5
    <3>7. target'[id] # NoFile => Complete(id)' /\ target'[id] # partial'[id]
      BY <1>0, <1>b, <2>0, <3>2, <3>3 DEF Alone, Complete, TypeOK
    <3> QED
      BY <3>2, <3>3, <3>4, <3>6, <3>7 DEF Alone
  <2> QED
    BY <2>1, <2>2
<1>5. ASSUME NEW p \in Fetchers, Write(p) PROVE Alone(id)'
  <2>0. /\ pc[p] = "write" /\ Current(p) \in Vendor /\ file[p] \in Files
        /\ UNCHANGED <<target, partial, shared, pc, at, file, others>>
        /\ offset[p] \in Nat /\ offset' = [offset EXCEPT ![p] = offset[p] + 1]
    BY <1>0, <1>5 DEF Write, TypeOK
  <2>1. content' = [content EXCEPT ![Current(p)][file[p]] =
                      content[Current(p)][file[p]] \cup {offset[p] + 1}]
    BY <1>0, <1>5, <2>0 DEF Write, TypeOK
  <2>2. CASE Current(p) # id
    <3>1. p \notin Writers(id) /\ p \notin Writers(id)'
      BY <2>0, <2>2 DEF Writers, Current
    <3>2. /\ content'[id] = content[id]
          /\ \A q \in Fetchers \ {p} : offset'[q] = offset[q]
      BY <1>0, <2>0, <2>1, <2>2 DEF TypeOK
    <3> QED
      BY <1>b, <2>0, <3>1, <3>2, AloneElsewhere
  <2>3. CASE Current(p) = id
    <3>1. p \in Writers(id) /\ \A q \in Writers(id)' : q = p
      BY <1>b, <2>0, <2>3 DEF Writers, Current, Alone
    <3>2. /\ file[p] = partial[id] /\ partial[id] # NoFile
          /\ 1 .. offset[p] \subseteq content[id][partial[id]]
      BY <1>b, <2>0, <3>1 DEF Alone
    <3>3. /\ content'[id][partial[id]] = content[id][partial[id]] \cup {offset[p] + 1}
          /\ \A f \in Files \ {partial[id]} : content'[id][f] = content[id][f]
          /\ offset'[p] = offset[p] + 1
      BY <1>0, <2>0, <2>1, <2>3, <3>2 DEF TypeOK
    <3>4. 1 .. offset'[p] \subseteq content'[id][partial[id]]
      BY <2>0, <3>2, <3>3
    <3>5. target'[id] # NoFile => Complete(id)' /\ target'[id] # partial'[id]
      BY <1>0, <1>b, <2>0, <3>3 DEF Alone, Complete, TypeOK
    <3> QED
      BY <2>0, <3>1, <3>2, <3>4, <3>5 DEF Alone
  <2> QED
    BY <2>2, <2>3
<1>6. ASSUME NEW p \in Fetchers, Close(p) PROVE Alone(id)'
  <2>0. /\ pc[p] = "write" /\ offset[p] = Blocks
        /\ pc' = [pc EXCEPT ![p] = "replace"]
        /\ file' = [file EXCEPT ![p] = NoFile]
        /\ offset' = [offset EXCEPT ![p] = 0]
        /\ UNCHANGED <<target, partial, content, shared, at>>
    BY <1>6 DEF Close, Closes, disk
  <2>1. pc'[p] = "replace" /\ \A q \in Fetchers \ {p} :
           pc'[q] = pc[q] /\ file'[q] = file[q] /\ offset'[q] = offset[q]
    BY <1>0, <2>0 DEF TypeOK
  <2>2. CASE Current(p) # id
    <3>1. p \notin Writers(id) /\ p \notin Writers(id)'
      BY <2>0, <2>2 DEF Writers, Current
    <3> QED
      BY <1>b, <2>0, <2>1, <3>1, AloneElsewhere
  <2>3. CASE Current(p) = id
    <3>1. p \in Writers(id) /\ \A q \in Writers(id)' : q = p
      BY <1>b, <2>0, <2>1, <2>3 DEF Writers, Current, Alone
    <3>2. partial[id] # NoFile /\ 1 .. Blocks \subseteq content[id][partial[id]]
      BY <1>b, <2>0, <3>1 DEF Alone
    <3>3. content[id][partial[id]] = Whole
      <4>1. partial[id] \in Files
        BY <1>0, <3>2 DEF TypeOK
      <4>2. content[id][partial[id]] \in SUBSET Whole
        BY <1>0, <4>1 DEF TypeOK
      <4> QED
        BY <3>2, <4>2 DEF Whole
    <3> QED
      BY <1>b, <2>0, <2>1, <3>1, <3>2, <3>3 DEF Alone, Complete
  <2> QED
    BY <2>2, <2>3
<1>7. ASSUME NEW p \in Fetchers, Replace(p) PROVE Alone(id)'
  <2>0. /\ pc[p] = "replace" /\ Current(p) \in Vendor
        /\ UNCHANGED <<content, shared, file, offset, others>>
    BY <1>0, <1>7 DEF Replace, TypeOK
  <2>1. \A q \in Fetchers \ {p} : pc'[q] = pc[q] /\ at'[q] = at[q]
    BY <1>0, <1>7 DEF Replace, TypeOK
  <2>2. p \notin Writers(id)'
    BY <1>0, <1>7 DEF Replace, Writers, TypeOK
  <2>3. CASE Current(p) # id
    <3>1. p \notin Writers(id)
      BY <2>3 DEF Writers
    <3>2. target'[id] = target[id] /\ partial'[id] = partial[id]
      BY <1>0, <1>7, <2>3 DEF Replace, TypeOK
    <3> QED
      BY <1>b, <2>0, <2>1, <2>2, <3>1, <3>2, AloneElsewhere
  <2>4. CASE Current(p) = id
    <3>1. p \in Writers(id) /\ Writers(id)' = {}
      BY <1>b, <2>0, <2>1, <2>2, <2>4 DEF Writers, Current, Alone
    <3>2. partial[id] # NoFile /\ content[id][partial[id]] = Whole
      BY <1>b, <2>0, <3>1 DEF Alone
    <3>3. target'[id] = partial[id] /\ partial'[id] = NoFile
      BY <1>0, <1>7, <2>4, <3>2 DEF Replace, TypeOK
    <3> QED
      BY <2>0, <3>1, <3>2, <3>3 DEF Alone, Complete
  <2> QED
    BY <2>3, <2>4
<1>8. ASSUME NEW p \in Fetchers, Finish(p) PROVE Alone(id)'
  <2>1. p \notin Writers(id) /\ p \notin Writers(id)'
    BY <1>0, <1>8 DEF Finish, Writers, TypeOK
  <2> QED
    BY <1>0, <1>8, <1>b, <2>1, AloneElsewhere DEF Finish, disk, TypeOK
<1>9. ASSUME NEW p \in Fetchers, Stop(p) PROVE Alone(id)'
  <2>0. /\ pc' = [pc EXCEPT ![p] = "stopped"]
        /\ file' = [file EXCEPT ![p] = NoFile]
        /\ offset' = [offset EXCEPT ![p] = 0]
        /\ UNCHANGED <<target, partial, content, shared, at>>
    BY <1>9 DEF Stop, Closes, disk
  <2>1. /\ p \notin Writers(id)'
        /\ \A q \in Fetchers \ {p} :
             pc'[q] = pc[q] /\ file'[q] = file[q] /\ offset'[q] = offset[q]
    BY <1>0, <2>0 DEF TypeOK, Writers
  <2>2. \A q \in Writers(id)' : /\ q \in Writers(id) /\ pc'[q] = pc[q]
                                /\ file'[q] = file[q] /\ offset'[q] = offset[q]
    BY <2>0, <2>1 DEF Writers, Current
  <2> QED
    BY <1>b, <2>0, <2>2 DEF Alone, Complete
<1>10. CASE BeginCheck \/ Look \/ EndCheck \/ UNCHANGED vars
  <2>1. UNCHANGED <<disk, program>>
    BY <1>10 DEF BeginCheck, Look, EndCheck, vars
  <2> QED
    BY <1>b, <2>1 DEF disk, program, Alone, Complete, Writers, Current
<1> QED
  BY <1>1, <1>2, <1>3, <1>4, <1>5, <1>6, <1>7, <1>8, <1>9, <1>10 DEF Next, Fetch

(* However often a fetch fails or is killed, the part it was at is whole   *)
(* or not there, unless another fetch was at the same part.                *)
THEOREM WholeOrShared == Spec => []WholeOnDisk
<1>1. IInv => WholeOnDisk
  BY DEF IInv, Alone, WholeOnDisk
<1> QED
  BY <1>1, AloneInit, AloneStep, PTL DEF Spec

-----------------------------------------------------------------------------
(* What fetch and check report.  Files do not vanish: what a process has    *)
(* seen or made stays true until it reports.                                *)
There(id) == target[id] # NoFile

Passed ==
  \A p \in Fetchers :
    /\ Running(p) \/ pc[p] = "done" =>
         \A i \in 1 .. Len(Parts) : i < at[p] /\ Parts[i] \in Vendor => There(Parts[i])
    /\ pc[p] = "done" => at[p] > Len(Parts)

Looked ==
  /\ check.pc \in {"looking", "zero"} /\ ~check.absent =>
       \A i \in 1 .. Len(Parts) : i < check.at /\ Parts[i] \notin Scripted => Exists(Parts[i])
  /\ check.pc = "zero" => ~check.absent /\ check.at > Len(Parts)

LEMMA VendorOrNot ==
  \A id \in Ids : id \in Vendor \/ id \in Local \/ id \in Scripted
BY DEF Vendor

LEMMA FilesStay ==
  ASSUME TypeOK, [Next]_vars
  PROVE  /\ present' = present
         /\ \A id \in Vendor : There(id) => There(id)'
<1>1. CASE \E p \in Fetchers : Replace(p)
  BY <1>1 DEF TypeOK, Replace, There, others
<1>2. CASE UNCHANGED vars
  BY <1>2 DEF There, vars, disk, others
<1>3. CASE BeginCheck \/ Look \/ EndCheck
  BY <1>3 DEF BeginCheck, Look, EndCheck, There, disk
<1>4. CASE \E p \in Fetchers : \/ Begin(p) \/ Skip(p) \/ Connect(p) \/ Open(p) \/ Write(p)
                               \/ Close(p) \/ Finish(p) \/ Stop(p)
  BY <1>4 DEF Begin, Skip, Connect, Open, Write, Close, Closes, Finish, Stop, There,
              disk, others
<1> QED
  BY <1>1, <1>2, <1>3, <1>4 DEF Next, Fetch

LEMMA PassedStep == TypeOK /\ Passed /\ [Next]_vars => Passed'
<1> SUFFICES ASSUME TypeOK, Passed, [Next]_vars PROVE Passed'
  OBVIOUS
<1> USE ConstantFacts
<1>0. \A id \in Vendor : There(id) => There(id)'
  BY FilesStay
<1> DEFINE Good(p) == /\ Running(p) \/ pc[p] = "done" =>
                           \A i \in 1 .. Len(Parts) :
                              i < at[p] /\ Parts[i] \in Vendor => There(Parts[i])
                      /\ pc[p] = "done" => at[p] > Len(Parts)
<1> SUFFICES ASSUME NEW q \in Fetchers PROVE Good(q)'
  BY DEF Passed
<1>a. Good(q)
  BY DEF Passed
<1>b. at[q] \in Nat
  BY DEF TypeOK
<1>1. ASSUME pc'[q] = pc[q], at'[q] = at[q] PROVE Good(q)'
  BY <1>0, <1>1, <1>a DEF Running
<1>2. ASSUME NEW p \in Fetchers, Begin(p) PROVE Good(q)'
  <2>1. CASE q = p
    <3>1. at'[q] = 1 /\ pc'[q] = "fetch"
      BY <1>2, <2>1 DEF Begin, TypeOK
    <3> QED
      BY <3>1
  <2>2. CASE q # p
    BY <1>1, <1>2, <2>2 DEF Begin, TypeOK
  <2> QED
    BY <2>1, <2>2
<1>3. ASSUME NEW p \in Fetchers, Skip(p) PROVE Good(q)'
  <2>1. CASE q = p
    <3>1. /\ pc'[q] = "fetch" /\ at'[q] = at[q] + 1 /\ Running(q)
          /\ Parts[at[q]] \in Vendor => There(Parts[at[q]])
      BY <1>3, <2>1 DEF Skip, AtPart, Running, TypeOK, Current, Exists, There
    <3> QED
      BY <1>0, <1>a, <1>b, <3>1
  <2>2. CASE q # p
    BY <1>1, <1>3, <2>2 DEF Skip, TypeOK
  <2> QED
    BY <2>1, <2>2
<1>4. ASSUME NEW p \in Fetchers, Connect(p) \/ Open(p) \/ Close(p) \/ Write(p)
      PROVE  Good(q)'
  <2>1. /\ at'[q] = at[q]
        /\ pc'[q] = pc[q] \/ (Running(q) /\ pc'[q] \in {"connect", "write", "replace"})
    BY <1>4 DEF Connect, AtPart, Open, Opens, Close, Closes, Write, TypeOK, Running
  <2> QED
    BY <1>0, <1>1, <1>a, <2>1 DEF Running
<1>5. ASSUME NEW p \in Fetchers, Replace(p) PROVE Good(q)'
  <2>1. CASE q # p
    BY <1>1, <1>5, <2>1 DEF Replace, TypeOK
  <2>2. CASE q = p /\ partial[Current(p)] # NoFile
    <3>1. /\ pc'[q] = "fetch" /\ at'[q] = at[q] + 1 /\ Running(q)
          /\ target' = [target EXCEPT ![Parts[at[q]]] = partial[Parts[at[q]]]]
          /\ partial[Parts[at[q]]] # NoFile
      BY <1>5, <2>2 DEF Replace, Running, TypeOK, Current
    <3>2. Parts[at[q]] \in Vendor => target'[Parts[at[q]]] # NoFile
      BY <3>1 DEF TypeOK
    <3> QED
      BY <1>0, <1>a, <1>b, <3>1, <3>2 DEF There
  <2>3. CASE q = p /\ partial[Current(p)] = NoFile
    <3>1. pc'[q] = "lost"
      BY <1>5, <2>3 DEF Replace, TypeOK
    <3> QED
      BY <3>1 DEF Running
  <2> QED
    BY <2>1, <2>2, <2>3
<1>6. ASSUME NEW p \in Fetchers, Finish(p) PROVE Good(q)'
  <2>1. CASE q = p
    <3>1. /\ pc'[q] = "done" /\ at'[q] = at[q] /\ Running(q) /\ at[q] > Len(Parts)
      BY <1>6, <2>1 DEF Finish, TypeOK, Running
    <3> QED
      BY <1>0, <1>a, <3>1
  <2>2. CASE q # p
    BY <1>1, <1>6, <2>2 DEF Finish, TypeOK
  <2> QED
    BY <2>1, <2>2
<1>7. ASSUME NEW p \in Fetchers, Stop(p) PROVE Good(q)'
  <2>1. CASE q = p
    <3>1. pc'[q] = "stopped"
      BY <1>7, <2>1 DEF Stop, Closes, TypeOK
    <3> QED
      BY <3>1 DEF Running
  <2>2. CASE q # p
    BY <1>1, <1>7, <2>2 DEF Stop, Closes, TypeOK
  <2> QED
    BY <2>1, <2>2
<1>8. CASE BeginCheck \/ Look \/ EndCheck \/ UNCHANGED vars
  BY <1>1, <1>8 DEF BeginCheck, Look, EndCheck, vars, program
<1> QED
  BY <1>2, <1>3, <1>4, <1>5, <1>6, <1>7, <1>8 DEF Next, Fetch

(* A fetch that ends without an exception leaves no vendor part missing.    *)
THEOREM FetchIsComplete == Spec => []NothingMissing
<1>1. Init => Passed
  BY DEF Init, Passed, Running
<1>2. TypeOK /\ Passed => NothingMissing
  <2> SUFFICES ASSUME TypeOK, Passed, NEW p \in Fetchers, pc[p] = "done", NEW id \in Vendor
               PROVE  Exists(id)
    BY DEF NothingMissing
  <2>1. PICK i \in 1 .. Len(Parts) : Parts[i] = id
    BY ConstantFacts
  <2>2. at[p] \in Nat /\ i < at[p]
    BY ConstantFacts DEF TypeOK, Passed
  <2> QED
    BY ConstantFacts, <2>1, <2>2 DEF Passed, There, Exists
<1> QED
  BY <1>1, <1>2, PassedStep, TypeCorrect, PTL DEF Spec

LEMMA LookedStep == TypeOK /\ Looked /\ [Next]_vars => Looked'
<1> SUFFICES ASSUME TypeOK, Looked, [Next]_vars PROVE Looked'
  OBVIOUS
<1> USE ConstantFacts
<1>0. \A id \in Ids \ Scripted : Exists(id) => Exists(id)'
  BY FilesStay, VendorOrNot DEF Exists, There
<1>a. check.at \in 1 .. Len(Parts) + 1
  BY DEF TypeOK
<1>1. CASE UNCHANGED check
  BY <1>0, <1>1 DEF Looked
<1>2. CASE BeginCheck
  <2>1. check' = [pc |-> "looking", at |-> 1, absent |-> FALSE]
    BY <1>2 DEF BeginCheck
  <2> QED
    BY <2>1 DEF Looked
<1>3. CASE Look
  <2> DEFINE id == Parts[check.at]
             absent == check.absent \/ (id \notin Scripted /\ ~Exists(id))
  <2>1. /\ check.pc = "looking"
        /\ check'.pc = "looking" /\ check'.at = check.at + 1 /\ check'.absent = absent
    BY <1>3 DEF Look, TypeOK
  <2>2. ASSUME ~absent, NEW i \in 1 .. Len(Parts), i < check.at + 1, Parts[i] \notin Scripted
        PROVE  Exists(Parts[i])'
    <3>1. Exists(Parts[i])
      <4>1. CASE i = check.at
        BY <2>2, <4>1
      <4>2. CASE i # check.at
        <5>1. i < check.at
          BY <1>a, <2>2, <4>2
        <5> QED
          BY <2>1, <2>2, <5>1 DEF Looked
      <4> QED
        BY <4>1, <4>2
    <3> QED
      BY <1>0, <2>2, <3>1
  <2> HIDE DEF absent
  <2> QED
    BY <2>1, <2>2 DEF Looked
<1>4. CASE EndCheck
  <2>1. /\ check.pc = "looking" /\ check.at > Len(Parts)
        /\ check'.pc = IF check.absent THEN "one" ELSE "zero"
        /\ check'.at = check.at /\ check'.absent = check.absent
    BY <1>4 DEF EndCheck, TypeOK
  <2> QED
    BY <1>0, <2>1 DEF Looked
<1>5. CASE \E p \in Fetchers : Begin(p) \/ Fetch(p) \/ Stop(p)
  <2>1. UNCHANGED check
    BY <1>5 DEF Fetch, Begin, Skip, Connect, Open, Write, Close, Replace, Finish, Stop, others
  <2> QED
    BY <1>1, <2>1
<1> QED
  BY <1>1, <1>2, <1>3, <1>4, <1>5 DEF Next, vars, others

(* While fetches go on, a check that finds nothing missing has found the    *)
(* file of every part of the robot.                                         *)
THEOREM CheckIsRight == Spec => []CheckedMeansThere
<1>1. Init => Looked
  BY DEF Init, Looked
<1>2. TypeOK /\ Looked => CheckedMeansThere
  <2> SUFFICES ASSUME TypeOK, Looked, check.pc = "zero", NEW id \in Ids
               PROVE  Exists(Source(id))
    BY DEF CheckedMeansThere
  <2>1. Source(id) \in Ids /\ Source(id) \notin Scripted
    BY ConstantFacts, ChannelAssumption DEF Source
  <2>2. PICK i \in 1 .. Len(Parts) : Parts[i] = Source(id)
    BY ConstantFacts, <2>1
  <2>3. check.at \in Nat /\ i < check.at
    BY ConstantFacts DEF TypeOK, Looked
  <2> QED
    BY <2>1, <2>2, <2>3 DEF Looked
<1> QED
  BY <1>1, <1>2, LookedStep, TypeCorrect, PTL DEF Spec

-----------------------------------------------------------------------------
(* Somebody wins.  A fetch is overtaken when another one has brought the    *)
(* part it is at work on to disk; whoever did that is not overtaken itself, *)
(* and only a fetch that is overtaken can find its ".part" moved.           *)
Overtaken(p) == pc[p] \in {"connect", "write", "replace"} /\ There(Current(p))

Ahead(p) == pc[p] # "lost" /\ ~Overtaken(p)

PartKept ==
  \A p \in Fetchers :
    pc[p] \in {"write", "replace"} => There(Current(p)) \/ partial[Current(p)] # NoFile

OneAhead == PartKept /\ \E p \in Fetchers : Ahead(p)

(* A ".part" that somebody has opened goes away only by becoming the part. *)
LEMMA PartKeptStep == TypeOK /\ PartKept /\ [Next]_vars => PartKept'
<1> SUFFICES ASSUME TypeOK, PartKept, [Next]_vars, NEW q \in Fetchers,
                    pc'[q] \in {"write", "replace"}
             PROVE  There(Current(q))' \/ partial'[Current(q)'] # NoFile
  BY DEF PartKept
<1> DEFINE id == Parts[at[q]]
<1>1. CASE UNCHANGED <<pc, at, target, partial>>
  BY <1>1 DEF PartKept, There, Current
<1>2. ASSUME NEW p \in Fetchers, Open(p) PROVE There(Current(q))' \/ partial'[Current(q)'] # NoFile
  <2>1. /\ target' = target /\ at' = at
        /\ \A d \in Vendor : partial[d] # NoFile => partial'[d] # NoFile
        /\ Current(p) \in Vendor /\ partial'[Current(p)] # NoFile
    <3>1. Current(p) \in Vendor
      BY <1>2 DEF Open, TypeOK
    <3>2. PICK f : /\ partial' = [partial EXCEPT ![Current(p)] = f] /\ f # NoFile
      BY <1>2, <3>1, ConstantFacts DEF Open, Opens, Unused, TypeOK
    <3> QED
      BY <1>2, <3>1, <3>2 DEF Open, TypeOK
  <2>2. CASE q = p
    BY <2>1, <2>2 DEF Current
  <2>3. CASE q # p
    <3>1. pc'[q] = pc[q]
      BY <1>2, <2>3 DEF Open, Opens, TypeOK
    <3> QED
      BY <2>1, <3>1 DEF PartKept, There, Current, TypeOK
  <2> QED
    BY <2>2, <2>3
<1>3. ASSUME NEW p \in Fetchers, Replace(p)
      PROVE  There(Current(q))' \/ partial'[Current(q)'] # NoFile
  <2>1. q # p /\ pc'[q] = pc[q] /\ at'[q] = at[q]
    BY <1>3 DEF Replace, TypeOK
  <2>2. Current(p) \in Vendor /\ id \in Vendor
    BY <1>3, <2>1 DEF Replace, TypeOK, Current
  <2>3. target'[id] # NoFile \/ (target'[id] = target[id] /\ partial'[id] = partial[id])
    BY <1>3, <2>2 DEF Replace, TypeOK
  <2> QED
    BY <2>1, <2>3 DEF PartKept, There, Current
<1>4. ASSUME NEW p \in Fetchers,
             Begin(p) \/ Skip(p) \/ Connect(p) \/ Write(p) \/ Close(p) \/ Finish(p) \/ Stop(p)
      PROVE  There(Current(q))' \/ partial'[Current(q)'] # NoFile
  <2>1. pc[q] \in {"write", "replace"} /\ at'[q] = at[q] /\ UNCHANGED <<target, partial>>
    BY <1>4 DEF Begin, Skip, AtPart, Connect, Write, Close, Closes, Finish, Stop, disk, TypeOK,
                Running
  <2> QED
    BY <2>1 DEF PartKept, There, Current
<1>5. CASE BeginCheck \/ Look \/ EndCheck \/ UNCHANGED vars
  BY <1>1, <1>5 DEF BeginCheck, Look, EndCheck, vars, program, disk
<1> QED
  BY <1>2, <1>3, <1>4, <1>5 DEF Next, Fetch

LEMMA OneAheadStep == TypeOK /\ OneAhead /\ [Next]_vars => OneAhead'
<1> SUFFICES ASSUME TypeOK, OneAhead, [Next]_vars PROVE \E p \in Fetchers : Ahead(p)'
  BY PartKeptStep DEF OneAhead
<1> PICK q \in Fetchers : Ahead(q)
  BY DEF OneAhead
<1>1. ASSUME NEW p \in Fetchers, Replace(p) PROVE \E r \in Fetchers : Ahead(r)'
  <2>1. CASE partial[Current(p)] # NoFile
    <3>1. pc'[p] = "fetch"
      BY <1>1, <2>1 DEF Replace, TypeOK
    <3> QED
      BY <3>1 DEF Ahead, Overtaken
  <2>2. CASE partial[Current(p)] = NoFile
    <3>1. q # p
      BY <1>1, <2>2 DEF Replace, OneAhead, PartKept, Ahead, Overtaken
    <3>2. pc'[q] = pc[q] /\ at'[q] = at[q] /\ target' = target
      BY <1>1, <2>2, <3>1 DEF Replace, TypeOK
    <3> QED
      BY <3>2 DEF Ahead, Overtaken, There, Current
  <2> QED
    BY <2>1, <2>2
<1>2. ASSUME NEW p \in Fetchers,
             \/ Begin(p) \/ Skip(p) \/ Connect(p) \/ Open(p) \/ Write(p) \/ Close(p)
             \/ Finish(p) \/ Stop(p)
      PROVE  \E r \in Fetchers : Ahead(r)'
  <2>1. target' = target
    BY <1>2 DEF Begin, Skip, Connect, Open, Write, Close, Closes, Finish, Stop, disk
  <2>2. CASE q # p
    <3>1. pc'[q] = pc[q] /\ at'[q] = at[q]
      BY <1>2, <2>2 DEF Begin, Skip, Connect, Open, Opens, Write, Close, Closes, Finish, Stop,
                        TypeOK
    <3> QED
      BY <2>1, <3>1 DEF Ahead, Overtaken, There, Current
  <2>3. CASE q = p /\ (Begin(p) \/ Skip(p) \/ Finish(p) \/ Stop(p))
    <3>1. pc'[p] \in {"fetch", "done", "stopped"}
      BY <2>3 DEF Begin, Skip, AtPart, Finish, Stop, Closes, TypeOK
    <3> QED
      BY <3>1 DEF Ahead, Overtaken
  <2>4. CASE q = p /\ Connect(p)
    <3>1. /\ pc'[p] = "connect" /\ at'[p] = at[p]
          /\ Current(p) \in Vendor /\ ~Exists(Current(p))
      BY <2>4 DEF Connect, TypeOK
    <3>2. ~There(Current(p))
      BY <3>1, ConstantFacts DEF Exists, There
    <3> QED
      BY <2>1, <3>1, <3>2 DEF Ahead, Overtaken, There, Current
  <2>5. CASE q = p /\ (Open(p) \/ Write(p) \/ Close(p))
    <3>1. /\ pc[p] \in {"connect", "write"} /\ at'[p] = at[p]
          /\ pc'[p] \in {"write", "replace", "lost"}
      BY <2>5 DEF Open, Opens, Write, Close, Closes, TypeOK
    <3>2. pc'[p] # "lost"
      BY <2>5 DEF Open, Opens, Write, Close, Closes, TypeOK
    <3> QED
      BY <2>1, <2>5, <3>1, <3>2 DEF Ahead, Overtaken, There, Current
  <2> QED
    BY <1>2, <2>2, <2>3, <2>4, <2>5
<1>3. CASE BeginCheck \/ Look \/ EndCheck \/ UNCHANGED vars
  BY <1>3 DEF BeginCheck, Look, EndCheck, vars, program, disk, Ahead, Overtaken, There, Current
<1> QED
  BY <1>1, <1>2, <1>3 DEF Next, Fetch

(* However many fetches take each other's ".part" away, not all of them end *)
(* with that error.                                                         *)
THEOREM NotAllLost == Spec => []SomebodyWins
<1>1. Init => OneAhead
  <2> SUFFICES ASSUME Init PROVE OneAhead
    OBVIOUS
  <2>1. PICK p \in Fetchers : TRUE
    BY CatalogueAssumption
  <2> QED
    BY <2>1 DEF Init, OneAhead, PartKept, Ahead, Overtaken
<1>2. OneAhead => SomebodyWins
  BY DEF OneAhead, Ahead, SomebodyWins
<1> QED
  BY <1>1, <1>2, OneAheadStep, TypeCorrect, PTL DEF Spec

-----------------------------------------------------------------------------
(* What EventuallyFetched rests on beside fairness.  The order of the       *)
(* places in one part's download; "lost" and "done" end a fetch.            *)
Places == <<"fetch", "connect", "write", "replace", "lost", "done">>

Further(place, other) == \E k, l \in 1 .. 6 : k < l /\ Places[k] = place /\ Places[l] = other

Advances(p) ==
  \/ /\ at'[p] = at[p] + 1 /\ at'[p] <= Len(Parts) + 1
  \/ /\ at'[p] = at[p] /\ Further(pc[p], pc'[p])
  \/ /\ at'[p] = at[p] /\ pc'[p] = pc[p]
     /\ offset'[p] = offset[p] + 1 /\ offset'[p] <= Blocks

FetchAdvances == \A p \in Fetchers : Fetch(p) => Advances(p)

LostToAnother ==
  \A p \in Fetchers : pc[p] # "lost" /\ pc'[p] = "lost" => There(Current(p))

FilesRemain == \A id \in Vendor : There(id) => There(id)'

LEMMA FurtherPlaces ==
  /\ Further("fetch", "connect") /\ Further("connect", "write")
  /\ Further("write", "replace") /\ Further("replace", "lost")
  /\ Further("fetch", "done")
<1>1. /\ Places[1] = "fetch" /\ Places[2] = "connect" /\ Places[3] = "write"
      /\ Places[4] = "replace" /\ Places[5] = "lost" /\ Places[6] = "done"
  BY DEF Places
<1>2. /\ 1 \in 1 .. 6 /\ 2 \in 1 .. 6 /\ 3 \in 1 .. 6 /\ 4 \in 1 .. 6
      /\ 5 \in 1 .. 6 /\ 6 \in 1 .. 6
      /\ 1 < 2 /\ 2 < 3 /\ 3 < 4 /\ 4 < 5 /\ 1 < 6
  OBVIOUS
<1> QED
  BY <1>1, <1>2, Zenon DEF Further

LEMMA FetchStep == TypeOK => FetchAdvances
<1> SUFFICES ASSUME TypeOK, NEW p \in Fetchers, Fetch(p) PROVE Advances(p)
  BY DEF FetchAdvances
<1>0. /\ at[p] \in Nat /\ offset[p] \in Nat /\ Len(Parts) \in Nat /\ Blocks \in Nat
  BY ConstantFacts DEF TypeOK
<1>1. CASE Skip(p)
  <2>1. at'[p] = at[p] + 1 /\ at[p] <= Len(Parts)
    BY <1>1 DEF TypeOK, Skip, AtPart
  <2> QED
    BY <1>0, <2>1 DEF Advances
<1>2. CASE Connect(p)
  <2>1. at'[p] = at[p] /\ pc[p] = "fetch" /\ pc'[p] = "connect"
    BY <1>2 DEF TypeOK, Connect, AtPart
  <2> QED
    BY <2>1, FurtherPlaces DEF Advances
<1>3. CASE Open(p)
  <2>1. at'[p] = at[p] /\ pc[p] = "connect" /\ pc'[p] = "write"
    BY <1>3 DEF TypeOK, Open, Opens
  <2> QED
    BY <2>1, FurtherPlaces DEF Advances
<1>4. CASE Write(p)
  <2>1. /\ at'[p] = at[p] /\ pc'[p] = pc[p]
        /\ offset'[p] = offset[p] + 1 /\ offset[p] < Blocks
    BY <1>4 DEF TypeOK, Write
  <2> QED
    BY <1>0, <2>1 DEF Advances
<1>5. CASE Close(p)
  <2>1. at'[p] = at[p] /\ pc[p] = "write" /\ pc'[p] = "replace"
    BY <1>5 DEF TypeOK, Close, Closes
  <2> QED
    BY <2>1, FurtherPlaces DEF Advances
<1>6. CASE Replace(p)
  <2>1. CASE partial[Current(p)] # NoFile
    <3>1. at'[p] = at[p] + 1 /\ at[p] <= Len(Parts)
      BY <1>6, <2>1 DEF TypeOK, Replace
    <3> QED
      BY <1>0, <3>1 DEF Advances
  <2>2. CASE partial[Current(p)] = NoFile
    <3>1. at'[p] = at[p] /\ pc[p] = "replace" /\ pc'[p] = "lost"
      BY <1>6, <2>2 DEF TypeOK, Replace
    <3> QED
      BY <3>1, FurtherPlaces DEF Advances
  <2> QED
    BY <2>1, <2>2
<1>7. CASE Finish(p)
  <2>1. at'[p] = at[p] /\ pc[p] = "fetch" /\ pc'[p] = "done"
    BY <1>7 DEF TypeOK, Finish
  <2> QED
    BY <2>1, FurtherPlaces DEF Advances
<1> QED
  BY <1>1, <1>2, <1>3, <1>4, <1>5, <1>6, <1>7 DEF Fetch

LEMMA LostStep == TypeOK /\ PartKept /\ [Next]_vars => LostToAnother
<1> SUFFICES ASSUME TypeOK, PartKept, [Next]_vars,
                    NEW q \in Fetchers, pc[q] # "lost", pc'[q] = "lost"
             PROVE  There(Current(q))
  BY DEF LostToAnother
<1>1. ASSUME NEW p \in Fetchers, Replace(p) PROVE There(Current(q))
  <2>1. q = p /\ pc[p] = "replace" /\ partial[Current(p)] = NoFile
    BY <1>1 DEF TypeOK, Replace
  <2> QED
    BY <2>1 DEF PartKept
<1>2. ASSUME NEW p \in Fetchers,
             \/ Begin(p) \/ Skip(p) \/ Connect(p) \/ Open(p) \/ Write(p) \/ Close(p)
             \/ Finish(p) \/ Stop(p)
      PROVE  FALSE
  BY <1>2 DEF TypeOK, Begin, Skip, AtPart, Connect, Open, Opens, Write, Close, Closes,
              Finish, Stop
<1>3. CASE BeginCheck \/ Look \/ EndCheck \/ UNCHANGED vars
  BY <1>3 DEF BeginCheck, Look, EndCheck, vars, program
<1> QED
  BY <1>1, <1>2, <1>3 DEF Next, Fetch

(* Every step of a fetch goes forward through the parts and, at one part,   *)
(* through its download, which is bounded; a fetch loses its ".part" only    *)
(* to one that has brought the same part to disk, where it stays.  So a      *)
(* fetch that is started again skips what it lost before.                    *)
THEOREM FetchProgress == Spec => [][FetchAdvances /\ LostToAnother /\ FilesRemain]_vars
<1>1. Init => PartKept
  BY DEF Init, PartKept
<1>2. TypeOK /\ PartKept /\ [Next]_vars => FetchAdvances /\ LostToAnother /\ FilesRemain
  BY FetchStep, LostStep, FilesStay DEF FilesRemain
<1> QED
  BY <1>1, <1>2, PartKeptStep, TypeCorrect, PTL DEF Spec

(* The guard of Open, at the only place where a fetch could have to wait.   *)
CanOpen == \A p \in Fetchers :
  pc[p] = "connect" => partial[Current(p)] # NoFile \/ Unused(Current(p)) # {}

LEMMA FileLeft ==
  ASSUME IsFiniteSet(Fetchers), IsFiniteSet(Files), Cardinality(Fetchers) < Cardinality(Files),
         TypeOK
  PROVE  CanOpen
<1> SUFFICES ASSUME NEW p \in Fetchers, pc[p] = "connect", partial[Current(p)] = NoFile,
                    Unused(Current(p)) = {}
             PROVE  FALSE
  BY DEF CanOpen
<1> DEFINE id == Current(p)
           By(f) == CHOOSE q \in Fetchers : q # p /\ file[q] = f
           user == [f \in Files |-> IF f = target[id] THEN p ELSE By(f)]
<1>1. ASSUME NEW f \in Files, f # target[id] PROVE By(f) \in Fetchers \ {p} /\ file[By(f)] = f
  <2>1. \E q \in Writers(id) : file[q] = f
    BY <1>1, ConstantFacts DEF Unused
  <2>2. \E q \in Fetchers : q # p /\ file[q] = f
    BY <2>1 DEF Writers
  <2> QED
    BY <2>2
<1>2. user \in [Files -> Fetchers]
  BY <1>1
<1>3. PICK f, g \in Files : f # g /\ user[f] = user[g]
  <2> HIDE DEF user
  <2> QED
    BY <1>2, FS_PigeonHole
<1> QED
  BY <1>1, <1>3

(* When a part's directory has more inodes than there are fetches, no fetch *)
(* ever waits for one: the bound of Files takes no behaviour away.          *)
THEOREM FetchNeverWaits ==
  ASSUME IsFiniteSet(Fetchers), IsFiniteSet(Files), Cardinality(Fetchers) < Cardinality(Files)
  PROVE  Spec => []CanOpen
<1>1. TypeOK => CanOpen
  BY FileLeft
<1> QED
  BY <1>1, TypeCorrect, PTL
=============================================================================
