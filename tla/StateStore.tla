----------------------------- MODULE StateStore -----------------------------
(***************************************************************************)
(* state-store.mjs: one JSON file, one copy of it in memory, a chain of    *)
(* mutations and a chain of saves.  Every await of load, save and mutate   *)
(* is a place where the other calls go on.  A state is the set of the      *)
(* changes it contains; a change has the name of the call that makes it.   *)
(***************************************************************************)
EXTENDS Naturals, Sequences

CONSTANTS
    Mutators,     \* calls of mutate
    Savers,       \* calls that load, change what they got and save it
    Readers,      \* calls of load
    Externals,    \* changes another process makes to the file
    MaxCrashes,   \* bound on crashes of the server
    Faults        \* what may go wrong: a subset of FaultKinds

FaultKinds == {"write", "throw", "unreadable"}

Calls == Mutators \cup Savers \cup Readers
Changes == Mutators \cup Savers \cup Externals

ASSUME StoreAssumption ==
    /\ MaxCrashes \in Nat /\ Faults \subseteq FaultKinds
    /\ Mutators \cap Savers = {} /\ Readers \cap (Mutators \cup Savers) = {}
    /\ Externals \cap Calls = {}

VARIABLES
    disk,        \* the state file: its changes and its fingerprint (mtime and size)
    heap,        \* the state objects this process has had; the last one is this.state
    seen,        \* _stateMtime and _stateSize
    call,        \* how far each call is and what it holds
    mutations,   \* _mutationLock: the calls in the mutation chain
    saves,       \* _saveLock: the calls in the save chain
    external,    \* the external changes that were made
    crashes,     \* how often the server has crashed
    intact       \* this.state was never replaced while the server ran

vars == <<disk, heap, seen, call, mutations, saves, external, crashes, intact>>

Open == {"queued", "stat", "compare", "read", "parse", "update", "mkdir", "saving", "rename", "record"}
Settled == {"done", "failed", "gone"}

\* A call that holds nothing.
Cleared(place) == [at |-> place, ref |-> 0, content |-> {}, stamp |-> 0]

TypeOK ==
    /\ disk \in [content: SUBSET Changes, stamp: Nat]
    /\ heap \in Seq(SUBSET Changes)
    /\ seen \in Nat
    /\ call \in [Calls -> [at: {"idle"} \cup Open \cup Settled, ref: Nat,
                           content: SUBSET Changes, stamp: Nat]]
    /\ mutations \in Seq(Mutators) /\ saves \in Seq(Mutators \cup Savers)
    /\ external \subseteq Externals
    /\ crashes \in 0..MaxCrashes
    /\ intact \in BOOLEAN

Init ==
    /\ disk = [content |-> {}, stamp |-> 0]
    /\ heap = <<>> /\ seen = 0
    /\ call = [c \in Calls |-> Cleared("idle")]
    /\ mutations = <<>> /\ saves = <<>>
    /\ external = {} /\ crashes = 0 /\ intact = TRUE

-----------------------------------------------------------------------------
At(c, place) == call[c].at = place
Goto(c, place) == call' = [call EXCEPT ![c].at = place]

IsNext(c, chain) == chain # <<>> /\ Head(chain) = c

(* The first load, before the server takes calls.  A file that is missing  *)
(* or cannot be read or parsed is replaced by the default state.           *)

Boot ==
    /\ heap = <<>>
    /\ heap' = <<disk.content>>
    /\ seen' = disk.stamp
    /\ UNCHANGED <<disk, call, mutations, saves, external, crashes, intact>>

BootUnreadable ==
    /\ "unreadable" \in Faults
    /\ heap = <<>>
    /\ heap' = <<{}>>
    /\ disk' = [content |-> {}, stamp |-> disk.stamp + 1]
    /\ seen' = disk.stamp + 1
    /\ intact' = FALSE
    /\ UNCHANGED <<call, mutations, saves, external, crashes>>

(* load: stat the file, and read it again when its fingerprint is not the  *)
(* one that was recorded.                                                  *)

BeginMutate(c) ==
    /\ c \in Mutators
    /\ heap # <<>> /\ At(c, "idle")
    /\ mutations' = Append(mutations, c)
    /\ Goto(c, "queued")
    /\ UNCHANGED <<disk, heap, seen, saves, external, crashes, intact>>

BeginLoad(c) ==
    /\ IF c \in Mutators THEN At(c, "queued") /\ IsNext(c, mutations)
                         ELSE heap # <<>> /\ At(c, "idle")
    /\ Goto(c, "stat")
    /\ UNCHANGED <<disk, heap, seen, mutations, saves, external, crashes, intact>>

Stat(c) ==
    /\ At(c, "stat")
    /\ call' = [call EXCEPT ![c].at = "compare", ![c].stamp = disk.stamp]
    /\ UNCHANGED <<disk, heap, seen, mutations, saves, external, crashes, intact>>

\* load returns an object; a reader is done with it.
Loaded(c, object) ==
    call' = [call EXCEPT ![c] =
        IF c \in Readers THEN Cleared("done") ELSE [at |-> "update", ref |-> object, content |-> {}, stamp |-> 0]]

Unchanged(c) ==
    /\ At(c, "compare")
    /\ call[c].stamp = seen
    /\ Loaded(c, Len(heap))
    /\ UNCHANGED <<disk, heap, seen, mutations, saves, external, crashes, intact>>

Differs(c) ==
    /\ At(c, "compare")
    /\ call[c].stamp # seen
    /\ Goto(c, "read")
    /\ UNCHANGED <<disk, heap, seen, mutations, saves, external, crashes, intact>>

ReadFile(c) ==
    /\ At(c, "read")
    /\ call' = [call EXCEPT ![c].at = "parse", ![c].content = disk.content]
    /\ UNCHANGED <<disk, heap, seen, mutations, saves, external, crashes, intact>>

\* What was read replaces this.state, whatever happened to it meanwhile.
Adopt(c) ==
    /\ At(c, "parse")
    /\ heap' = Append(heap, call[c].content)
    /\ seen' = call[c].stamp
    /\ intact' = FALSE
    /\ Loaded(c, Len(heap) + 1)
    /\ UNCHANGED <<disk, mutations, saves, external, crashes>>

-----------------------------------------------------------------------------
(* The updater changes the object it was given, at once or after an await  *)
(* of its own.                                                             *)

Update(c) ==
    /\ At(c, "update")
    /\ heap' = [heap EXCEPT ![call[c].ref] = @ \cup {c}]
    /\ call' = [call EXCEPT ![c] = Cleared("mkdir")]
    /\ UNCHANGED <<disk, seen, mutations, saves, external, crashes, intact>>

SettleHoldingChain(c, outcome) ==
    /\ call' = [call EXCEPT ![c] = Cleared(outcome)]
    /\ mutations' = IF c \in Mutators /\ outcome = "done" THEN Tail(mutations) ELSE mutations

\* Either outcome lets the next mutation go on.
Settle(c, outcome) ==
    /\ call' = [call EXCEPT ![c] = Cleared(outcome)]
    /\ mutations' = IF c \in Mutators THEN Tail(mutations) ELSE mutations

\* Nothing takes back what it changed before it threw.
UpdaterThrows(c) ==
    /\ "throw" \in Faults
    /\ c \in Mutators /\ At(c, "update")
    /\ heap' \in {heap, [heap EXCEPT ![call[c].ref] = @ \cup {c}]}
    /\ Settle(c, "failed")
    /\ UNCHANGED <<disk, seen, saves, external, crashes, intact>>

(* save: behind the saves before it, write a temporary file, rename it over *)
(* the state file, record the fingerprint.                                  *)

JoinSaves(c) ==
    /\ At(c, "mkdir")
    /\ saves' = Append(saves, c)
    /\ Goto(c, "saving")
    /\ UNCHANGED <<disk, heap, seen, mutations, external, crashes, intact>>

WriteFileAnyTurn(c) ==
    /\ At(c, "saving")
    /\ call' = [call EXCEPT ![c].at = "rename", ![c].content = heap[Len(heap)]]
    /\ UNCHANGED <<disk, heap, seen, mutations, saves, external, crashes, intact>>

WriteFile(c) ==
    /\ At(c, "saving") /\ IsNext(c, saves)
    /\ call' = [call EXCEPT ![c].at = "rename", ![c].content = heap[Len(heap)]]
    /\ UNCHANGED <<disk, heap, seen, mutations, saves, external, crashes, intact>>

Rename(c) ==
    /\ At(c, "rename")
    /\ disk' = [content |-> call[c].content, stamp |-> disk.stamp + 1]
    /\ call' = [call EXCEPT ![c] = Cleared("record")]
    /\ UNCHANGED <<heap, seen, mutations, saves, external, crashes, intact>>

Record(c) ==
    /\ At(c, "record")
    /\ seen' = disk.stamp
    /\ saves' = Tail(saves)
    /\ Settle(c, "done")
    /\ UNCHANGED <<disk, heap, external, crashes, intact>>

SaveFailsUnsettled(c) ==
    /\ "write" \in Faults
    /\ At(c, "saving") \/ At(c, "rename")
    /\ IsNext(c, saves)
    /\ saves' = Tail(saves)
    /\ Settle(c, "rejecting")
    /\ UNCHANGED <<disk, heap, seen, external, crashes, intact>>

SaveFails(c) ==
    /\ "write" \in Faults
    /\ At(c, "saving") \/ At(c, "rename")
    /\ IsNext(c, saves)
    /\ saves' = Tail(saves)
    /\ Settle(c, "failed")
    /\ UNCHANGED <<disk, heap, seen, external, crashes, intact>>

-----------------------------------------------------------------------------
\* Another process with a store of its own reads the file and replaces it.
ExternalChange(x) ==
    /\ x \notin external
    /\ external' = external \cup {x}
    /\ disk' = [content |-> disk.content \cup {x}, stamp |-> disk.stamp + 1]
    /\ UNCHANGED <<heap, seen, call, mutations, saves, crashes, intact>>

Crash ==
    /\ heap # <<>>
    /\ crashes < MaxCrashes
    /\ crashes' = crashes + 1
    /\ heap' = <<>>
    /\ call' = [c \in Calls |-> IF call[c].at \in Open THEN Cleared("gone") ELSE call[c]]
    /\ mutations' = <<>> /\ saves' = <<>>
    /\ UNCHANGED <<disk, seen, external, intact>>

Step(c) ==
    \/ BeginLoad(c) /\ c \in Mutators
    \/ Stat(c) \/ Unchanged(c) \/ Differs(c) \/ ReadFile(c) \/ Adopt(c)
    \/ Update(c) \/ UpdaterThrows(c) \/ JoinSaves(c)
    \/ WriteFile(c) \/ Rename(c) \/ Record(c) \/ SaveFails(c)

Next ==
    \/ Boot \/ BootUnreadable \/ Crash
    \/ \E c \in Calls : BeginMutate(c) \/ BeginLoad(c) \/ Step(c)
    \/ \E x \in Externals : ExternalChange(x)

Spec == Init /\ [][Next]_vars

\* The event loop runs what is ready, and file operations end.
Fairness == WF_vars(Boot) /\ \A c \in Calls : WF_vars(Step(c))

LiveSpec == Spec /\ Fairness

-----------------------------------------------------------------------------
(* Properties.                                                             *)

Returned == {c \in Mutators \cup Savers : At(c, "done")}

\* A mutation or a save that has returned is in the file and stays there, over
\* failed writes, throwing updaters and crashes, as long as a reload has not
\* replaced the state in memory.
ReturnedIsDurable == intact => Returned \subseteq disk.content

\* Every call comes to an end: neither of the two chains waits for the other,
\* and a rejected save or mutation does not hold up those behind it.
EveryCallSettles == \A c \in Calls : ~ At(c, "idle") ~> call[c].at \in Settled
=============================================================================
