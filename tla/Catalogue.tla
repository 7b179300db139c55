----------------------------- MODULE Catalogue -----------------------------
(***************************************************************************)
(* How the parts of Don1 come to disk (simulation/don1/catalogue.py).      *)
(* `fetch` downloads each vendor part into a file named ".part" and moves  *)
(* it to its name when it is complete; `check` lists what is missing.      *)
(* Nothing keeps two fetches apart, and each may fail, or be killed, at    *)
(* any point and be started again.                                         *)
(*                                                                         *)
(* A part's directory entries are `target` and `partial`; they name files  *)
(* (inodes), which outlive a rename and may be open in several processes.  *)
(* A file is the set of its blocks that have been written.                 *)
(***************************************************************************)
EXTENDS Naturals, Sequences

CONSTANTS Parts,      \* don1_part_ids(): the sorted ids
          Local,      \* those of LOCAL_PACKAGE
          Scripted,   \* SCRIPTED: no file of their own
          Channel,    \* the part whose file the scripted ones are cut from
          Fetchers,   \* processes that run `catalogue fetch`
          Files,      \* inodes of one part's directory
          Blocks,     \* a STEP file is blocks 1 .. Blocks
          MaxStops,   \* bounds the downloads that fail and the kills
          NoFile

Ids == {Parts[i] : i \in 1 .. Len(Parts)}
Vendor == Ids \ (Local \cup Scripted)

ASSUME CatalogueAssumption ==
    /\ Parts \in Seq(Ids)
    /\ Blocks \in Nat \ {0}
    /\ MaxStops \in Nat
    /\ NoFile \notin Files
    /\ Fetchers # {}

\* Nobody fetches the channel for the sake of the part that is cut from it:
\* the blueprints have to place it as a part of its own.
ASSUME ChannelAssumption == Channel \in Vendor

VARIABLES target,     \* [Vendor -> Files or NoFile]: the entry "<path>.step"
          partial,    \* [Vendor -> Files or NoFile]: "<path>.step.part"
          content,    \* [Vendor -> [Files -> SUBSET blocks]]
          present,    \* the local parts that the clone of openvmp-models has
          pc,         \* [Fetchers -> place in fetch()]
          at,         \* [Fetchers -> index into Parts]
          file,       \* [Fetchers -> Files or NoFile]: `out`
          offset,     \* [Fetchers -> blocks written by this process]
          check,      \* the process that runs `catalogue check`
          stops,      \* failures so far
          shared      \* parts whose ".part" was emptied with another's work in it

disk == <<target, partial, content, shared>>
program == <<pc, at, file, offset>>
others == <<present, check, stops>>
vars == <<disk, program, others>>

-----------------------------------------------------------------------------
Whole == 1 .. Blocks

Complete(id) == content[id][target[id]] = Whole

\* os.path.exists(step_file(id)).
Exists(id) == IF id \in Local THEN id \in present ELSE target[id] # NoFile

\* What the part at the index of p is.
Current(p) == Parts[at[p]]

\* The processes that have opened the ".part" of a part and not moved it yet.
Writers(id) == {p \in Fetchers : pc[p] \in {"write", "replace"} /\ Current(p) = id}

Running(p) == pc[p] \in {"fetch", "connect", "write", "replace"}

\* A new file is one that no entry names and no process has open.
Unused(id) ==
    {f \in Files : /\ f \notin {target[id], partial[id]}
                   /\ \A q \in Writers(id) : file[q] # f}

Init ==
    /\ target = [id \in Vendor |-> NoFile]
    /\ partial = [id \in Vendor |-> NoFile]
    /\ content = [id \in Vendor |-> [f \in Files |-> {}]]
    /\ present \in SUBSET (Local \cap Ids)
    /\ pc = [p \in Fetchers |-> "idle"]
    /\ at = [p \in Fetchers |-> 1]
    /\ file = [p \in Fetchers |-> NoFile]
    /\ offset = [p \in Fetchers |-> 0]
    /\ check = [pc |-> "idle", at |-> 1, absent |-> FALSE]
    /\ stops = 0
    /\ shared = {}

-----------------------------------------------------------------------------
\* fetch: started by the operator, also after a failure.
Begin(p) ==
    /\ ~Running(p)
    /\ pc' = [pc EXCEPT ![p] = "fetch"]
    /\ at' = [at EXCEPT ![p] = 1]
    /\ UNCHANGED <<disk, file, offset, others>>

AtPart(p) == pc[p] = "fetch" /\ at[p] <= Len(Parts)

\* A part that another process is fetching is left to it.
SkipPartial(p) ==
    /\ AtPart(p)
    /\ Current(p) \in Vendor => Exists(Current(p)) \/ partial[Current(p)] # NoFile
    /\ at' = [at EXCEPT ![p] = @ + 1]
    /\ UNCHANGED <<disk, pc, file, offset, others>>

\* `continue`: a part without download, or one that is on disk.
Skip(p) ==
    /\ AtPart(p)
    /\ Current(p) \in Vendor => Exists(Current(p))
    /\ at' = [at EXCEPT ![p] = @ + 1]
    /\ UNCHANGED <<disk, pc, file, offset, others>>

\* The parts of the blueprints are downloaded as well.
ConnectAny(p) ==
    /\ AtPart(p)
    /\ ~Exists(Current(p))
    /\ pc' = [pc EXCEPT ![p] = "connect"]
    /\ UNCHANGED <<disk, at, file, offset, others>>

\* The part is not there: urlopen, which takes its time.
Connect(p) ==
    /\ AtPart(p)
    /\ Current(p) \in Vendor /\ ~Exists(Current(p))
    /\ pc' = [pc EXCEPT ![p] = "connect"]
    /\ UNCHANGED <<disk, at, file, offset, others>>

\* Process p has f open as the ".part" of a part, empty.
Opens(p, id, f) ==
    /\ partial' = [partial EXCEPT ![id] = f]
    /\ content' = [content EXCEPT ![id][f] = {}]
    /\ file' = [file EXCEPT ![p] = f]
    /\ offset' = [offset EXCEPT ![p] = 0]
    /\ pc' = [pc EXCEPT ![p] = "write"]

\* open(..., 'xb') refuses a ".part" that is there.
OpenExclusive(p) ==
    /\ pc[p] = "connect"
    /\ LET id == Current(p)
       IN IF partial[id] = NoFile
          THEN Opens(p, id, CHOOSE f \in Unused(id) : TRUE)
          ELSE pc' = [pc EXCEPT ![p] = "lost"] /\ UNCHANGED <<partial, content, file, offset>>
    /\ UNCHANGED <<target, shared, at, others>>

\* open(target + '.part', 'wb') creates the file or empties the one that is
\* there, whoever else has it open.
Open(p) ==
    /\ pc[p] = "connect"
    /\ LET id == Current(p)
       IN IF partial[id] = NoFile
          THEN /\ Unused(id) # {}
               /\ Opens(p, id, CHOOSE f \in Unused(id) : TRUE)
               /\ UNCHANGED shared
          ELSE /\ Opens(p, id, partial[id])
               /\ shared' = IF Writers(id) # {} THEN shared \cup {id} ELSE shared
    /\ UNCHANGED <<target, at, others>>

\* out.write, at this process's own offset.
Write(p) ==
    /\ pc[p] = "write"
    /\ offset[p] < Blocks
    /\ offset' = [offset EXCEPT ![p] = @ + 1]
    /\ content' = [content EXCEPT ![Current(p)][file[p]] = @ \cup {offset[p] + 1}]
    /\ UNCHANGED <<target, partial, shared, pc, at, file, others>>

\* `out` is closed, by the end of the `with` or with its process.
Closes(p, place) ==
    /\ pc' = [pc EXCEPT ![p] = place]
    /\ file' = [file EXCEPT ![p] = NoFile]
    /\ offset' = [offset EXCEPT ![p] = 0]
    /\ UNCHANGED <<disk, at>>

\* os.replace is indented into the `with`: not all may be written yet.
CloseLater(p) ==
    /\ pc[p] = "write"
    /\ Closes(p, "replace")
    /\ UNCHANGED others

\* The end of the `with`.
Close(p) ==
    /\ pc[p] = "write"
    /\ offset[p] = Blocks
    /\ Closes(p, "replace")
    /\ UNCHANGED others

\* os.replace(target, target + '.part'): there is no such file, ever.
ReplaceSwapped(p) ==
    /\ pc[p] = "replace"
    /\ pc' = [pc EXCEPT ![p] = "lost"]
    /\ UNCHANGED <<disk, at, file, offset, others>>

\* os.replace(target + '.part', target) moves what has that name now.  When
\* another process has moved it, FileNotFoundError ends this one.
Replace(p) ==
    /\ pc[p] = "replace"
    /\ LET id == Current(p)
       IN IF partial[id] # NoFile
          THEN /\ target' = [target EXCEPT ![id] = partial[id]]
               /\ partial' = [partial EXCEPT ![id] = NoFile]
               /\ pc' = [pc EXCEPT ![p] = "fetch"]
               /\ at' = [at EXCEPT ![p] = @ + 1]
          ELSE /\ pc' = [pc EXCEPT ![p] = "lost"]
               /\ UNCHANGED <<target, partial, at>>
    /\ UNCHANGED <<content, shared, file, offset, others>>

Finish(p) ==
    /\ pc[p] = "fetch"
    /\ at[p] > Len(Parts)
    /\ pc' = [pc EXCEPT ![p] = "done"]
    /\ UNCHANGED <<disk, at, file, offset, others>>

\* urlopen or read raises, the disk is full, or the process is killed.  What
\* is on disk stays.
Stop(p) ==
    /\ Running(p)
    /\ stops < MaxStops
    /\ stops' = stops + 1
    /\ Closes(p, "stopped")
    /\ UNCHANGED <<present, check>>

Fetch(p) ==
    \/ Skip(p) \/ Connect(p) \/ Open(p) \/ Write(p) \/ Close(p)
    \/ Replace(p) \/ Finish(p)

-----------------------------------------------------------------------------
\* check: missing() looks at one part after the other.
BeginCheck ==
    /\ check.pc # "looking"
    /\ check' = [pc |-> "looking", at |-> 1, absent |-> FALSE]
    /\ UNCHANGED <<disk, program, present, stops>>

\* The result is that of the last part.
LookLast ==
    /\ check.pc = "looking"
    /\ check.at <= Len(Parts)
    /\ LET id == Parts[check.at]
       IN check' = [check EXCEPT !.at = @ + 1,
                                 !.absent = id \notin Scripted /\ ~Exists(id)]
    /\ UNCHANGED <<disk, program, present, stops>>

Look ==
    /\ check.pc = "looking"
    /\ check.at <= Len(Parts)
    /\ LET id == Parts[check.at]
       IN check' = [check EXCEPT !.at = @ + 1,
                                 !.absent = @ \/ (id \notin Scripted /\ ~Exists(id))]
    /\ UNCHANGED <<disk, program, present, stops>>

\* The exit status: 0 when nothing is missing.
EndCheck ==
    /\ check.pc = "looking"
    /\ check.at > Len(Parts)
    /\ check' = [check EXCEPT !.pc = IF check.absent THEN "one" ELSE "zero"]
    /\ UNCHANGED <<disk, program, present, stops>>

Next ==
    \/ \E p \in Fetchers : Begin(p) \/ Fetch(p) \/ Stop(p)
    \/ BeginCheck \/ Look \/ EndCheck

Spec == Init /\ [][Next]_vars

\* A process that has failed is started again, as import_step tells its user.
Retry(p) == pc[p] \in {"stopped", "lost"} /\ Begin(p)

FairSpec ==
    /\ Spec
    /\ \A p \in Fetchers : WF_vars(Fetch(p)) /\ WF_vars(Retry(p))

-----------------------------------------------------------------------------
TypeOK ==
    /\ target \in [Vendor -> Files \cup {NoFile}]
    /\ partial \in [Vendor -> Files \cup {NoFile}]
    /\ content \in [Vendor -> [Files -> SUBSET Whole]]
    /\ present \subseteq Local
    /\ pc \in [Fetchers -> {"idle", "fetch", "connect", "write", "replace",
                            "done", "lost", "stopped"}]
    /\ at \in [Fetchers -> 1 .. Len(Parts) + 1]
    /\ file \in [Fetchers -> Files \cup {NoFile}]
    /\ offset \in [Fetchers -> 0 .. Blocks]
    /\ check \in [pc : {"idle", "looking", "zero", "one"},
                  at : 1 .. Len(Parts) + 1, absent : BOOLEAN]
    /\ stops \in 0 .. MaxStops
    /\ shared \subseteq Vendor
    \* Whoever works on a part has one to work on.
    /\ \A p \in Fetchers :
          /\ pc[p] \in {"connect", "write", "replace"} =>
                at[p] <= Len(Parts) /\ Current(p) \in Vendor
          /\ pc[p] = "write" => file[p] # NoFile

\* However often a fetch fails or is killed half way, and whatever it left,
\* a part that has its name on disk is complete.  Only a fetch that opened a
\* ".part" while another one was at work on it can break this.
WholeOnDisk ==
    \A id \in Vendor : target[id] # NoFile => Complete(id) \/ id \in shared

\* A fetch that has ended without an exception leaves no vendor part missing,
\* though it has skipped what others were about to fetch.
NothingMissing ==
    \A p \in Fetchers : pc[p] = "done" => \A id \in Vendor : Exists(id)

\* The file that a part is made from (StepPart, SideChannel).
Source(id) == IF id \in Scripted THEN Channel ELSE id

\* A check that reports nothing missing, while fetches go on, means that every
\* part of the robot can be rendered: import_step finds the file of each one.
CheckedMeansThere ==
    check.pc = "zero" => \A id \in Ids : Exists(Source(id))

\* Fetches that run side by side take each other's ".part" away, but never so
\* that all of them end with that error.
SomebodyWins == \E p \in Fetchers : pc[p] # "lost"

\* Once begun, a fetch that is started again whenever it fails brings every
\* part to disk: no remains of a failed one are in the way.
EventuallyFetched ==
    \A p \in Fetchers : Running(p) ~> \A id \in Vendor : Exists(id)
=============================================================================
