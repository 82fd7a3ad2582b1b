-------------------------- MODULE StateStoreProofs --------------------------
(***************************************************************************)
(* What a returned mutation or save is worth: as long as the state in      *)
(* memory was not replaced, it is in the file, for any number of calls,    *)
(* crashes and faults.  And what the two chains are worth: as long as a    *)
(* call is under way, some call has its turn.                              *)
(***************************************************************************)
EXTENDS StateStore, TLAPS

Changing == {"update", "mkdir", "saving", "rename", "record"}

\* A call that runs finds a state, and holds an object of this process.
CallsFit ==
    \A c \in Calls :
        /\ call[c].at \in Open => heap # <<>>
        /\ call[c].at = "update" => call[c].ref \in 1..Len(heap)
        /\ call[c].at \in Changing => c \notin Readers

\* Only the first of a chain goes on.
ChainsFit ==
    \A c \in Calls :
        /\ c \in Mutators /\ call[c].at \in Open /\ call[c].at # "queued" => IsNext(c, mutations)
        /\ call[c].at \in {"rename", "record"} => IsNext(c, saves)

\* A change is in the one object, then in what is written, then in the file;
\* none of the three ever lacks what was returned.
ChangesKept ==
    /\ heap # <<>> => Len(heap) = 1 /\ Returned \subseteq heap[1]
    /\ Returned \subseteq disk.content
    /\ \A c \in Calls :
        /\ call[c].at \in {"mkdir", "saving", "rename", "record"} => c \in heap[1]
        /\ call[c].at = "rename" => c \in call[c].content /\ Returned \subseteq call[c].content
        /\ call[c].at = "record" => c \in disk.content

IInv == TypeOK /\ CallsFit /\ ChainsFit /\ (intact => ChangesKept)

Place == {"idle"} \cup Open \cup Settled
CallRecord == [at: Place, ref: Nat, content: SUBSET Changes, stamp: Nat]

-----------------------------------------------------------------------------
(* Sequences and call records.                                             *)

LEMMA ChainAppend ==
  ASSUME NEW S, NEW chain \in Seq(S), NEW c \in S
  PROVE  /\ Append(chain, c) \in Seq(S)
         /\ \A d : IsNext(d, chain) => IsNext(d, Append(chain, c))
BY DEF IsNext

LEMMA ChainTail ==
  ASSUME NEW S, NEW chain \in Seq(S), chain # <<>>
  PROVE  Tail(chain) \in Seq(S)
OBVIOUS

\* An object that gains a change is still an object, and lost nothing.
LEMMA ObjectGrows ==
  ASSUME NEW S, NEW h \in Seq(SUBSET S), NEW k \in 1..Len(h), NEW c \in S
  PROVE  LET g == [h EXCEPT ![k] = @ \cup {c}]
         IN  /\ g \in Seq(SUBSET S) /\ Len(g) = Len(h) /\ g # <<>>
             /\ c \in g[k]
             /\ \A i \in 1..Len(h) : h[i] \subseteq g[i]
<1>. DEFINE g == [h EXCEPT ![k] = @ \cup {c}]
<1>1. h[k] \in SUBSET S
  OBVIOUS
<1>2. g \in Seq(SUBSET S) /\ Len(g) = Len(h)
  BY <1>1
<1>3. g[k] = h[k] \cup {c} /\ \A i \in 1..Len(h) : i # k => g[i] = h[i]
  OBVIOUS
<1>4. QED
  BY <1>1, <1>2, <1>3

LEMMA CallTyped ==
  ASSUME TypeOK, NEW c \in Calls
  PROVE  /\ call[c] \in CallRecord
         /\ call[c].at \in Place /\ call[c].ref \in Nat
         /\ call[c].content \subseteq Changes /\ call[c].stamp \in Nat
<1>1. call[c] \in CallRecord
  BY DEF TypeOK, CallRecord, Place
<1>2. QED
  BY <1>1 DEF CallRecord

\* One call's record is replaced.
LEMMA CallReplaced ==
  ASSUME TypeOK, NEW c \in Calls, NEW r \in CallRecord, call' = [call EXCEPT ![c] = r]
  PROVE  /\ call' \in [Calls -> CallRecord]
         /\ call'[c] = r
         /\ \A d \in Calls : d # c => call'[d] = call[d]
BY DEF TypeOK, CallRecord, Place

LEMMA ClearedTyped ==
  ASSUME NEW place \in Place
  PROVE  Cleared(place) \in CallRecord /\ Cleared(place).at = place
BY DEF Cleared, CallRecord

-----------------------------------------------------------------------------
(* One call goes on.  The others are where they were; what they hold stays *)
(* good as long as nothing shrinks and the chains keep their heads.        *)

Moves(c) ==
    /\ call' \in [Calls -> CallRecord]
    /\ \A d \in Calls : d # c => call'[d] = call[d]

Grows ==
    /\ heap # <<>> => heap' # <<>> /\ Len(heap') >= Len(heap)
    /\ intact' => intact /\ (heap # <<>> => Len(heap') = 1 /\ heap[1] \subseteq heap'[1])
    /\ disk.content \subseteq disk'.content

\* The part of the invariant that is about one call.
Fits(c) ==
    /\ call[c].at \in Open => heap # <<>>
    /\ call[c].at = "update" => call[c].ref \in 1..Len(heap)
    /\ call[c].at \in Changing => c \notin Readers
    /\ c \in Mutators /\ call[c].at \in Open /\ call[c].at # "queued" => IsNext(c, mutations)
    /\ call[c].at \in {"rename", "record"} => IsNext(c, saves)

Kept(c) ==
    /\ call[c].at \in {"mkdir", "saving", "rename", "record"} => c \in heap[1]
    /\ call[c].at = "rename" => c \in call[c].content /\ Returned \subseteq call[c].content
    /\ call[c].at = "record" => c \in disk.content

LEMMA InvParts ==
  IInv <=> /\ TypeOK
           /\ \A c \in Calls : Fits(c)
           /\ intact => /\ heap # <<>> => Len(heap) = 1 /\ Returned \subseteq heap[1]
                        /\ Returned \subseteq disk.content
                        /\ \A c \in Calls : Kept(c)
BY DEF IInv, CallsFit, ChainsFit, ChangesKept, Fits, Kept

\* A step of c that returns nothing.
LEMMA MoveKeeps ==
  ASSUME IInv, NEW c \in Calls, Moves(c), Grows, TypeOK', Fits(c)', intact' => Kept(c)',
         heap # <<>>, call'[c].at # "done" \/ c \in Readers,
         \A d \in Calls : d # c => (IsNext(d, mutations) => IsNext(d, mutations')),
         \A d \in Calls : d # c => (IsNext(d, saves) => IsNext(d, saves'))
  PROVE  IInv'
<1>1. \A d \in Calls : d # c => Fits(d)'
  <2>1. TAKE d \in Calls
  <2>2. HAVE d # c
  <2>3. Fits(d) /\ call'[d] = call[d]
    BY <2>2, InvParts DEF Moves
  <2>4. heap \in Seq(SUBSET Changes) /\ heap' \in Seq(SUBSET Changes) /\ Len(heap) \in Nat /\ Len(heap') \in Nat
    BY DEF TypeOK, IInv
  <2>5. call[d].ref \in Nat
    BY CallTyped DEF IInv
  <2>6. heap' # <<>> /\ Len(heap') >= Len(heap)
    BY DEF Grows
  <2>7. /\ IsNext(d, mutations) => IsNext(d, mutations')
        /\ IsNext(d, saves) => IsNext(d, saves')
    BY <2>2
  <2>8. call[d].at = "update" => call[d].ref \in 1..Len(heap')
    BY <2>3, <2>4, <2>5, <2>6 DEF Fits
  <2>9. QED
    BY <2>3, <2>6, <2>7, <2>8 DEF Fits
<1>2. Returned' = Returned \/ Returned' \subseteq Returned
  BY StoreAssumption DEF Returned, At, Moves, Calls
<1>3. ASSUME intact'
      PROVE  /\ heap' # <<>> => Len(heap') = 1 /\ Returned' \subseteq heap'[1]
             /\ Returned' \subseteq disk'.content
             /\ \A d \in Calls : Kept(d)'
  <2>1. intact
    BY <1>3 DEF Grows
  <2>2. /\ Len(heap) = 1 /\ Returned \subseteq heap[1]
        /\ Returned \subseteq disk.content
        /\ \A d \in Calls : Kept(d)
    BY <2>1, InvParts
  <2>3. /\ Len(heap') = 1 /\ heap[1] \subseteq heap'[1]
        /\ disk.content \subseteq disk'.content
    BY <1>3 DEF Grows
  <2>4. ASSUME NEW d \in Calls
        PROVE  Kept(d)'
    <3>1. CASE d = c
      BY <1>3, <3>1
    <3>2. CASE d # c
      <4>1. call'[d] = call[d] /\ Kept(d)
        BY <2>2, <3>2 DEF Moves
      <4>2. QED
        BY <1>2, <2>3, <4>1 DEF Kept
    <3>3. QED
      BY <3>1, <3>2
  <2>5. QED
    BY <1>2, <2>2, <2>3, <2>4
<1>4. CallsFit' /\ ChainsFit'
  BY <1>1 DEF Fits, CallsFit, ChainsFit
<1>5. intact' => ChangesKept'
  BY <1>3 DEF Kept, ChangesKept
<1>6. QED
  BY <1>4, <1>5 DEF IInv

-----------------------------------------------------------------------------
(* The steps of a call.                                                    *)

LEMMA HeapShape ==
  ASSUME IInv, heap # <<>>
  PROVE  /\ heap \in Seq(SUBSET Changes) /\ Len(heap) \in Nat \ {0}
         /\ heap[Len(heap)] \subseteq Changes
         /\ intact => Len(heap) = 1 /\ Returned \subseteq heap[1]
BY DEF IInv, TypeOK, ChangesKept

\* Steps that change nothing but the call's own record and the chains.
Still == UNCHANGED <<disk, heap, seen, external, crashes, intact>>

LEMMA StillKeeps ==
  ASSUME IInv, NEW c \in Calls, Moves(c), Still, heap # <<>>,
         mutations' \in Seq(Mutators), saves' \in Seq(Mutators \cup Savers),
         Fits(c)', intact' => Kept(c)', call'[c].at # "done" \/ c \in Readers,
         \A d \in Calls : d # c => (IsNext(d, mutations) => IsNext(d, mutations')),
         \A d \in Calls : d # c => (IsNext(d, saves) => IsNext(d, saves'))
  PROVE  IInv'
<1>1. TypeOK'
  BY DEF IInv, TypeOK, Still, Moves, CallRecord, Place
<1>2. Grows
  <2>1. Len(heap) \in Nat
    BY HeapShape
  <2>2. QED
    BY <2>1, HeapShape DEF Grows, Still
<1>3. QED
  BY <1>1, <1>2, MoveKeeps

LEMMA BeginMutateKeeps ==
  ASSUME IInv, NEW c \in Calls, BeginMutate(c)
  PROVE  IInv'
<1>1. Moves(c) /\ call'[c].at = "queued" /\ heap # <<>> /\ Still
  BY CallTyped DEF IInv, TypeOK, BeginMutate, Goto, Moves, Still, CallRecord, Place, Open
<1>2. mutations \in Seq(Mutators) /\ saves \in Seq(Mutators \cup Savers) /\ c \in Mutators
  BY DEF IInv, TypeOK, BeginMutate
<1>3. /\ mutations' \in Seq(Mutators)
      /\ \A d \in Calls : IsNext(d, mutations) => IsNext(d, mutations')
  BY <1>2, ChainAppend DEF BeginMutate
<1>4. Fits(c)' /\ Kept(c)' /\ saves' = saves
  BY <1>1 DEF Fits, Kept, BeginMutate, Still, Changing, Open
<1>5. QED
  BY <1>1, <1>2, <1>3, <1>4, StillKeeps

LEMMA BeginLoadKeeps ==
  ASSUME IInv, NEW c \in Calls, BeginLoad(c)
  PROVE  IInv'
<1>1. Moves(c) /\ call'[c].at = "stat" /\ Still /\ mutations' = mutations /\ saves' = saves
  BY CallTyped DEF IInv, TypeOK, BeginLoad, Goto, Moves, Still, CallRecord, Place, Open
<1>2. mutations \in Seq(Mutators) /\ saves \in Seq(Mutators \cup Savers)
  BY DEF IInv, TypeOK
<1>3. heap # <<>> /\ (c \in Mutators => IsNext(c, mutations))
  BY InvParts DEF Fits, BeginLoad, At, Open
<1>4. Fits(c)' /\ Kept(c)'
  BY <1>1, <1>3 DEF Fits, Kept, Still, Changing, IsNext
<1>5. QED
  BY <1>1, <1>2, <1>3, <1>4, StillKeeps

\* The steps of load that keep this.state.
LEMMA LoadKeeps ==
  ASSUME IInv, NEW c \in Calls, Stat(c) \/ Unchanged(c) \/ Differs(c) \/ ReadFile(c)
  PROVE  IInv'
<1>1. call[c].at \in {"stat", "compare", "read"}
  BY DEF Stat, Unchanged, Differs, ReadFile, At
<1>2. Fits(c) /\ heap # <<>> /\ (c \in Mutators => IsNext(c, mutations))
  BY <1>1, InvParts DEF Fits, Open
<1>3. disk.content \subseteq Changes /\ disk.stamp \in Nat
  BY DEF IInv, TypeOK
<1>4. Moves(c) /\ Still /\ mutations' = mutations /\ saves' = saves
  <2>1. CASE Stat(c)
    BY <1>3, <2>1, CallTyped DEF IInv, TypeOK, Stat, Moves, Still, CallRecord, Place, Open
  <2>2. CASE Unchanged(c)
    <3>1. Len(heap) \in Nat
      BY <1>2, HeapShape
    <3>2. [at |-> "update", ref |-> Len(heap), content |-> {}, stamp |-> 0] \in CallRecord
      BY <3>1 DEF CallRecord, Place, Open
    <3>3. Cleared("done") \in CallRecord
      BY ClearedTyped DEF Place, Settled
    <3>4. QED
      BY <2>2, <3>2, <3>3, CallReplaced DEF IInv, Unchanged, Loaded, Moves, Still
  <2>3. CASE Differs(c)
    BY <2>3, CallTyped DEF IInv, TypeOK, Differs, Goto, Moves, Still, CallRecord, Place, Open
  <2>4. CASE ReadFile(c)
    BY <1>3, <2>4, CallTyped DEF IInv, TypeOK, ReadFile, Moves, Still, CallRecord, Place, Open
  <2>5. QED
    BY <2>1, <2>2, <2>3, <2>4
<1>5. \/ call'[c].at \in {"compare", "read", "parse"}
      \/ call'[c].at = "update" /\ call'[c].ref = Len(heap) /\ c \notin Readers
      \/ call'[c].at = "done" /\ c \in Readers
  BY DEF IInv, TypeOK, Stat, Unchanged, Loaded, Cleared, Differs, Goto, ReadFile
<1>6. Fits(c)' /\ Kept(c)'
  BY <1>2, <1>4, <1>5, HeapShape DEF Fits, Kept, Still, Changing, IsNext, Open
<1>7. call'[c].at # "done" \/ c \in Readers
  BY <1>5
<1>8. mutations \in Seq(Mutators) /\ saves \in Seq(Mutators \cup Savers)
  BY DEF IInv, TypeOK
<1>9. QED
  BY <1>2, <1>4, <1>6, <1>7, <1>8, StillKeeps

LEMMA AdoptKeeps ==
  ASSUME IInv, NEW c \in Calls, Adopt(c)
  PROVE  IInv'
<1>1. Fits(c) /\ heap # <<>> /\ (c \in Mutators => IsNext(c, mutations))
  BY InvParts DEF Fits, Adopt, At, Open
<1>2. heap \in Seq(SUBSET Changes) /\ call[c].content \subseteq Changes /\ call[c].stamp \in Nat
  BY CallTyped DEF IInv, TypeOK
<1>3. PICK text \in SUBSET Changes : text = call[c].content
  BY <1>2
<1>4. heap' = Append(heap, text)
  BY <1>3 DEF Adopt
<1>5. heap' \in Seq(SUBSET Changes) /\ Len(heap') = Len(heap) + 1 /\ heap' # <<>> /\ Len(heap) \in Nat
  BY <1>2, <1>4
<1>6. Moves(c) /\ call'[c] = IF c \in Readers THEN Cleared("done")
                             ELSE [at |-> "update", ref |-> Len(heap) + 1, content |-> {}, stamp |-> 0]
  <2>1. [at |-> "update", ref |-> Len(heap) + 1, content |-> {}, stamp |-> 0] \in CallRecord
    BY <1>5 DEF CallRecord, Place, Open
  <2>2. Cleared("done") \in CallRecord
    BY ClearedTyped DEF Place, Settled
  <2>3. QED
    BY <2>1, <2>2, CallReplaced DEF IInv, Adopt, Loaded, Moves
<1>7. TypeOK'
  BY <1>2, <1>5, <1>6 DEF IInv, TypeOK, Adopt, Moves, CallRecord, Place
<1>8. Grows
  BY <1>5 DEF Grows, Adopt
<1>9. Fits(c)'
  BY <1>1, <1>5, <1>6 DEF Fits, Adopt, Cleared, IsNext, Changing, Open
<1>10. QED
  BY <1>1, <1>6, <1>7, <1>8, <1>9, MoveKeeps DEF Adopt, Cleared

LEMMA UpdateKeeps ==
  ASSUME IInv, NEW c \in Calls, Update(c)
  PROVE  IInv'
<1>1. Fits(c) /\ heap # <<>> /\ c \in Changes
  BY InvParts DEF Fits, Update, At, Open, Changing, Calls, Changes
<1>2. PICK k \in 1..Len(heap) : k = call[c].ref
  BY <1>1 DEF Fits, Update, At
<1>3. heap' = [heap EXCEPT ![k] = @ \cup {c}] /\ heap \in Seq(SUBSET Changes)
  BY <1>2 DEF Update, IInv, TypeOK
<1>4. /\ heap' \in Seq(SUBSET Changes) /\ Len(heap') = Len(heap) /\ heap' # <<>>
      /\ c \in heap'[k] /\ \A i \in 1..Len(heap) : heap[i] \subseteq heap'[i]
  BY <1>1, <1>3, ObjectGrows
<1>5. Moves(c) /\ call'[c].at = "mkdir"
  BY CallReplaced, ClearedTyped DEF IInv, Update, Moves, Place, Open
<1>6. TypeOK'
  BY <1>4, <1>5 DEF IInv, TypeOK, Update, Moves, CallRecord, Place
<1>7. Grows
  BY <1>1, <1>4, HeapShape DEF Grows, Update
<1>8. Fits(c)'
  BY <1>1, <1>4, <1>5 DEF Fits, Update, At, IsNext, Changing, Open
<1>9. ASSUME intact'
      PROVE  Kept(c)'
  <2>1. Len(heap) = 1
    BY <1>1, <1>9, HeapShape DEF Update
  <2>2. c \in heap'[1]
    BY <1>2, <1>4, <2>1
  <2>3. QED
    BY <1>5, <2>2 DEF Kept
<1>10. QED
  BY <1>1, <1>5, <1>6, <1>7, <1>8, <1>9, MoveKeeps DEF Update

\* A call that settles without a result leaves its chain.
LEMMA SettleFails ==
  ASSUME IInv, NEW c \in Calls, call[c].at \in Open, call[c].at # "queued", Settle(c, "failed")
  PROVE  /\ Moves(c) /\ call'[c].at = "failed"
         /\ mutations' \in Seq(Mutators)
         /\ \A d \in Calls : d # c => (IsNext(d, mutations) => IsNext(d, mutations'))
<1>1. Moves(c) /\ call'[c].at = "failed"
  BY CallReplaced, ClearedTyped DEF IInv, Settle, Moves, Place, Settled
<1>2. c \in Mutators => IsNext(c, mutations)
  BY InvParts DEF Fits
<1>3. mutations \in Seq(Mutators)
  BY DEF IInv, TypeOK
<1>4. QED
  BY <1>1, <1>2, <1>3, ChainTail DEF Settle, IsNext

LEMMA UpdaterThrowsKeeps ==
  ASSUME IInv, NEW c \in Calls, UpdaterThrows(c)
  PROVE  IInv'
<1>1. Fits(c) /\ heap # <<>> /\ c \in Changes
  BY InvParts DEF Fits, UpdaterThrows, At, Open, Calls, Changes
<1>2. PICK k \in 1..Len(heap) : k = call[c].ref
  BY <1>1 DEF Fits, UpdaterThrows, At
<1>3. heap' \in {heap, [heap EXCEPT ![k] = @ \cup {c}]} /\ heap \in Seq(SUBSET Changes)
  BY <1>2 DEF UpdaterThrows, IInv, TypeOK
<1>4. /\ heap' \in Seq(SUBSET Changes) /\ Len(heap') = Len(heap) /\ heap' # <<>>
      /\ \A i \in 1..Len(heap) : heap[i] \subseteq heap'[i]
  <2>1. CASE heap' = heap
    BY <1>1, <1>3, <2>1
  <2>2. CASE heap' = [heap EXCEPT ![k] = @ \cup {c}]
    BY <1>1, <1>3, <2>2, ObjectGrows
  <2>3. QED
    BY <1>3, <2>1, <2>2
<1>5. /\ Moves(c) /\ call'[c].at = "failed" /\ mutations' \in Seq(Mutators)
      /\ \A d \in Calls : d # c => (IsNext(d, mutations) => IsNext(d, mutations'))
  BY SettleFails DEF UpdaterThrows, At, Open
<1>6. TypeOK'
  BY <1>4, <1>5 DEF IInv, TypeOK, UpdaterThrows, Moves, CallRecord, Place
<1>7. Grows
  BY <1>1, <1>4, HeapShape DEF Grows, UpdaterThrows
<1>8. Fits(c)' /\ Kept(c)'
  BY <1>4, <1>5 DEF Fits, Kept, Changing, Open
<1>9. QED
  BY <1>1, <1>5, <1>6, <1>7, <1>8, MoveKeeps DEF UpdaterThrows

LEMMA JoinSavesKeeps ==
  ASSUME IInv, NEW c \in Calls, JoinSaves(c)
  PROVE  IInv'
<1>1. Fits(c) /\ heap # <<>> /\ (intact => Kept(c))
  BY InvParts DEF Fits, JoinSaves, At, Open
<1>2. Moves(c) /\ call'[c].at = "saving" /\ Still /\ mutations' = mutations
  BY CallTyped DEF IInv, TypeOK, JoinSaves, Goto, Moves, Still, CallRecord, Place, Open
<1>3. mutations \in Seq(Mutators) /\ saves \in Seq(Mutators \cup Savers) /\ c \in Mutators \cup Savers
  BY <1>1 DEF IInv, TypeOK, JoinSaves, At, Fits, Changing, Calls
<1>4. /\ saves' \in Seq(Mutators \cup Savers)
      /\ \A d \in Calls : IsNext(d, saves) => IsNext(d, saves')
  BY <1>3, ChainAppend DEF JoinSaves
<1>5. Fits(c)'
  BY <1>1, <1>2 DEF Fits, JoinSaves, At, Still, Changing, Open, IsNext
<1>6. intact' => Kept(c)'
  BY <1>1, <1>2 DEF Kept, JoinSaves, At, Still
<1>7. QED
  BY <1>1, <1>2, <1>3, <1>4, <1>5, <1>6, StillKeeps

LEMMA WriteFileKeeps ==
  ASSUME IInv, NEW c \in Calls, WriteFile(c)
  PROVE  IInv'
<1>1. Fits(c) /\ heap # <<>> /\ (intact => Kept(c))
  BY InvParts DEF Fits, WriteFile, At, Open
<1>2. heap[Len(heap)] \subseteq Changes
  BY <1>1, HeapShape
<1>3. /\ Moves(c) /\ call'[c].at = "rename" /\ call'[c].content = heap[Len(heap)]
      /\ Still /\ mutations' = mutations /\ saves' = saves
  BY <1>2, CallTyped DEF IInv, TypeOK, WriteFile, Moves, Still, CallRecord, Place, Open
<1>4. mutations \in Seq(Mutators) /\ saves \in Seq(Mutators \cup Savers)
  BY DEF IInv, TypeOK
<1>5. Fits(c)'
  BY <1>1, <1>3 DEF Fits, WriteFile, At, Still, Changing, Open, IsNext
<1>6. ASSUME intact'
      PROVE  Kept(c)'
  <2>1. Len(heap) = 1 /\ Returned \subseteq heap[1] /\ c \in heap[1]
    BY <1>1, <1>3, <1>6, HeapShape DEF Still, Kept, WriteFile, At
  <2>2. Returned' \subseteq Returned
    BY <1>3 DEF Returned, At, Moves, Calls
  <2>3. QED
    BY <1>3, <2>1, <2>2 DEF Kept, Still
<1>7. QED
  BY <1>1, <1>3, <1>4, <1>5, <1>6, StillKeeps

LEMMA RenameKeeps ==
  ASSUME IInv, NEW c \in Calls, Rename(c)
  PROVE  IInv'
<1>1. Fits(c) /\ heap # <<>> /\ (intact => Kept(c)) /\ IsNext(c, saves)
  BY InvParts DEF Fits, Rename, At, Open
<1>2. call[c].content \subseteq Changes /\ disk.stamp \in Nat
  BY CallTyped DEF IInv, TypeOK
<1>3. Moves(c) /\ call'[c].at = "record"
  BY CallReplaced, ClearedTyped DEF IInv, Rename, Moves, Place, Open
<1>4. /\ disk'.content = call[c].content
      /\ TypeOK'
  BY <1>2, <1>3 DEF IInv, TypeOK, Rename, Moves, CallRecord, Place
<1>5. Returned' = Returned
  BY <1>3 DEF Returned, At, Moves, Calls, Rename
<1>6. \A d \in Calls : Fits(d)'
  <2>1. TAKE d \in Calls
  <2>2. CASE d = c
    BY <1>1, <1>3, <2>2 DEF Fits, Rename, At, Changing, Open, IsNext
  <2>3. CASE d # c
    <3>1. call'[d] = call[d] /\ Fits(d)
      BY <1>3, <2>3, InvParts DEF Moves
    <3>2. QED
      BY <3>1 DEF Fits, Rename, IsNext
  <2>4. QED
    BY <2>2, <2>3
<1>7. ASSUME intact'
      PROVE  /\ Returned' \subseteq disk'.content
             /\ \A d \in Calls : Kept(d)'
  <2>1. /\ \A d \in Calls : Kept(d)
        /\ c \in call[c].content /\ Returned \subseteq call[c].content /\ c \in heap[1]
    BY <1>1, <1>7, InvParts DEF Kept, Rename, At
  <2>2. \A d \in Calls : d # c => call[d].at \notin {"rename", "record"}
    BY <1>1, InvParts DEF Fits, IsNext
  <2>3. QED
    BY <1>3, <1>4, <1>5, <2>1, <2>2 DEF Kept, Moves, Rename
<1>8. CallsFit' /\ ChainsFit'
  BY <1>6 DEF Fits, CallsFit, ChainsFit
<1>9. ASSUME intact'
      PROVE  ChangesKept'
  <2>1. Len(heap) = 1 /\ Returned \subseteq heap[1]
    BY <1>1, <1>9, HeapShape DEF Rename
  <2>2. QED
    BY <1>5, <1>7, <1>9, <2>1 DEF Kept, ChangesKept, Rename
<1>10. QED
  BY <1>4, <1>8, <1>9 DEF IInv

\* The step with which a change counts as returned.
LEMMA RecordKeeps ==
  ASSUME IInv, NEW c \in Calls, Record(c)
  PROVE  IInv'
<1>1. /\ Fits(c) /\ heap # <<>> /\ (intact => Kept(c)) /\ IsNext(c, saves)
      /\ c \in Mutators => IsNext(c, mutations)
  BY InvParts DEF Fits, Record, At, Open
<1>2. mutations \in Seq(Mutators) /\ saves \in Seq(Mutators \cup Savers) /\ disk.stamp \in Nat
  BY DEF IInv, TypeOK
<1>3. Moves(c) /\ call'[c].at = "done"
  BY CallReplaced, ClearedTyped DEF IInv, Record, Settle, Moves, Place, Settled
<1>4. /\ mutations' \in Seq(Mutators) /\ saves' \in Seq(Mutators \cup Savers)
      /\ c \notin Mutators => mutations' = mutations
  BY <1>1, <1>2, ChainTail DEF Record, Settle, IsNext
<1>5. TypeOK'
  BY <1>2, <1>3, <1>4 DEF IInv, TypeOK, Record, Moves, CallRecord, Place
<1>6. Returned' = Returned \cup {c}
  <2>1. c \in Mutators \cup Savers
    BY <1>1 DEF Fits, Record, At, Changing, Calls
  <2>2. QED
    BY <1>3, <2>1 DEF Returned, At, Moves, Calls
<1>7. \A d \in Calls : Fits(d)'
  <2>1. TAKE d \in Calls
  <2>2. CASE d = c
    BY <1>3, <2>2 DEF Fits, Changing, Open
  <2>3. CASE d # c
    <3>1. call'[d] = call[d] /\ Fits(d)
      BY <1>3, <2>3, InvParts DEF Moves
    <3>2. call[d].at \notin {"rename", "record"}
      BY <1>1, <2>3, <3>1 DEF Fits, IsNext
    <3>3. IsNext(d, mutations) => IsNext(d, mutations')
      BY <1>1, <1>4, <2>3 DEF IsNext
    <3>4. QED
      BY <3>1, <3>2, <3>3 DEF Fits, Record
  <2>4. QED
    BY <2>2, <2>3
<1>8. CallsFit' /\ ChainsFit'
  BY <1>7 DEF Fits, CallsFit, ChainsFit
<1>9. ASSUME intact'
      PROVE  ChangesKept'
  <2>1. /\ Len(heap) = 1 /\ Returned \subseteq heap[1] /\ Returned \subseteq disk.content
        /\ \A d \in Calls : Kept(d)
    BY <1>1, <1>9, InvParts DEF Record
  <2>2. c \in heap[1] /\ c \in disk.content
    BY <2>1 DEF Kept, Record, At
  <2>3. \A d \in Calls : d # c => call[d].at \notin {"rename", "record"}
    BY <1>1, InvParts DEF Fits, IsNext
  <2>4. \A d \in Calls : Kept(d)'
    BY <1>3, <2>1, <2>3 DEF Kept, Moves, Record
  <2>5. QED
    BY <1>6, <2>1, <2>2, <2>4 DEF Kept, ChangesKept, Record
<1>10. QED
  BY <1>5, <1>8, <1>9 DEF IInv

LEMMA SaveFailsKeeps ==
  ASSUME IInv, NEW c \in Calls, SaveFails(c)
  PROVE  IInv'
<1>1. Fits(c) /\ heap # <<>> /\ IsNext(c, saves)
  BY InvParts DEF Fits, SaveFails, At, Open
<1>2. saves \in Seq(Mutators \cup Savers)
  BY DEF IInv, TypeOK
<1>3. /\ Moves(c) /\ call'[c].at = "failed" /\ mutations' \in Seq(Mutators)
      /\ \A d \in Calls : d # c => (IsNext(d, mutations) => IsNext(d, mutations'))
  BY SettleFails DEF SaveFails, At, Open
<1>4. /\ saves' \in Seq(Mutators \cup Savers)
      /\ \A d \in Calls : d # c => (IsNext(d, saves) => IsNext(d, saves'))
  BY <1>1, <1>2, ChainTail DEF SaveFails, IsNext
<1>5. Fits(c)' /\ Kept(c)'
  BY <1>3 DEF Fits, Kept, Changing, Open
<1>6. QED
  BY <1>1, <1>3, <1>4, <1>5, StillKeeps DEF SaveFails, Still

-----------------------------------------------------------------------------
(* The process and its surroundings.                                       *)

LEMMA BootKeeps ==
  ASSUME IInv, Boot \/ BootUnreadable
  PROVE  IInv'
<1>1. heap = <<>> /\ \A c \in Calls : call[c].at \notin Open
  BY InvParts DEF Fits, Boot, BootUnreadable
<1>2. disk.content \subseteq Changes /\ disk.stamp \in Nat
  BY DEF IInv, TypeOK
<1>3. PICK found \in SUBSET Changes : heap' = <<found>>
  BY <1>2 DEF Boot, BootUnreadable
<1>4. heap' \in Seq(SUBSET Changes) /\ Len(heap') = 1 /\ heap' # <<>>
  BY <1>3
<1>5. TypeOK'
  <2>1. disk' \in [content: SUBSET Changes, stamp: Nat] /\ seen' \in Nat
    BY <1>2 DEF IInv, TypeOK, Boot, BootUnreadable
  <2>2. QED
    BY <1>4, <2>1 DEF IInv, TypeOK, Boot, BootUnreadable
<1>6. call' = call
  BY DEF Boot, BootUnreadable
<1>7. CallsFit' /\ ChainsFit'
  BY <1>1, <1>6 DEF CallsFit, ChainsFit, Open, Changing
<1>8. ASSUME intact'
      PROVE  ChangesKept'
  <2>1. intact /\ heap' = <<disk.content>> /\ disk' = disk
    BY <1>8 DEF Boot, BootUnreadable
  <2>2. Returned \subseteq disk.content /\ Returned' = Returned
    BY <1>6, <2>1, InvParts DEF Returned, At
  <2>3. QED
    BY <1>1, <1>6, <2>1, <2>2 DEF ChangesKept, Open
<1>9. QED
  BY <1>5, <1>7, <1>8 DEF IInv

LEMMA ExternalChangeKeeps ==
  ASSUME IInv, NEW x \in Externals, ExternalChange(x)
  PROVE  IInv'
<1>1. TypeOK' /\ disk.content \subseteq disk'.content
  BY DEF IInv, TypeOK, ExternalChange, Changes
<1>2. QED
  BY <1>1 DEF IInv, CallsFit, ChainsFit, ChangesKept, ExternalChange, Returned, At

LEMMA CrashKeeps ==
  ASSUME IInv, Crash
  PROVE  IInv'
<1>1. call' \in [Calls -> CallRecord] /\ \A c \in Calls : call'[c].at \notin Open
  BY ClearedTyped DEF IInv, TypeOK, Crash, CallRecord, Place, Settled, Open, Cleared
<1>2. TypeOK'
  BY <1>1, StoreAssumption DEF IInv, TypeOK, Crash, CallRecord, Place
<1>3. Returned' = Returned
  BY DEF Returned, At, Crash, Cleared, Open, Calls
<1>4. QED
  BY <1>1, <1>2, <1>3 DEF IInv, CallsFit, ChainsFit, ChangesKept, Crash, Open, Changing

-----------------------------------------------------------------------------
LEMMA InitInv == Init => IInv
<1>1. Init => TypeOK
  BY StoreAssumption DEF Init, TypeOK, Cleared, Open, Settled
<1>2. Init => CallsFit /\ ChainsFit /\ ChangesKept
  BY DEF Init, CallsFit, ChainsFit, ChangesKept, Cleared, Open, Changing, Returned, At, Calls
<1>3. QED
  BY <1>1, <1>2 DEF IInv

LEMMA NextInv == IInv /\ [Next]_vars => IInv'
<1>. SUFFICES ASSUME IInv, [Next]_vars
              PROVE  IInv'
  OBVIOUS
<1>1. ASSUME NEW c \in Calls, BeginMutate(c) \/ BeginLoad(c) \/ Step(c)
      PROVE  IInv'
  BY <1>1, BeginMutateKeeps, BeginLoadKeeps, LoadKeeps, AdoptKeeps, UpdateKeeps,
     UpdaterThrowsKeeps, JoinSavesKeeps, WriteFileKeeps, RenameKeeps, RecordKeeps,
     SaveFailsKeeps DEF Step
<1>2. CASE UNCHANGED vars
  BY <1>2 DEF vars, IInv, TypeOK, CallsFit, ChainsFit, ChangesKept, Returned, At, IsNext
<1>3. QED
  BY <1>1, <1>2, BootKeeps, CrashKeeps, ExternalChangeKeeps DEF Next

\* The store's variables stay in their types, whatever fails.
THEOREM TypeTheorem == Spec => []TypeOK
<1>1. IInv => TypeOK
  BY DEF IInv
<1>2. QED
  BY <1>1, InitInv, NextInv, PTL DEF Spec

\* What mutate or save has returned for is in the state file and stays there
\* while no reload replaces the state in memory.
THEOREM DurableTheorem == Spec => []ReturnedIsDurable
<1>1. IInv => ReturnedIsDurable
  BY DEF IInv, ChangesKept, ReturnedIsDurable
<1>2. QED
  BY <1>1, InitInv, NextInv, PTL DEF Spec

-----------------------------------------------------------------------------
(* The two chains never wait for each other.                               *)

Writing == {"saving", "rename", "record"}

Holds(chain, c) == \E k \in DOMAIN chain : chain[k] = c
Distinct(chain) == \A j, k \in DOMAIN chain : chain[j] = chain[k] => j = k

\* Each chain holds, once, exactly the calls that wait in it or have the turn.
TurnsFit ==
    /\ Distinct(mutations) /\ Distinct(saves)
    /\ \A c \in Calls : call[c].at = "queued" => c \in Mutators
    /\ \A c \in Mutators : call[c].at \in Open <=> Holds(mutations, c)
    /\ \A c \in Mutators \cup Savers : call[c].at \in Writing <=> Holds(saves, c)

\* A call waits for nothing but its turn in a chain.
MayGoOn(c) ==
    /\ call[c].at \in Open
    /\ call[c].at = "queued" => IsNext(c, mutations)
    /\ call[c].at = "saving" => IsNext(c, saves)

SomeCallGoesOn == (\E c \in Calls : call[c].at \in Open) => \E c \in Calls : MayGoOn(c)

LEMMA ChainGrows ==
  ASSUME NEW S, NEW chain \in Seq(S), NEW c \in S, ~ Holds(chain, c), Distinct(chain)
  PROVE  /\ Distinct(Append(chain, c))
         /\ \A d : Holds(Append(chain, c), d) <=> Holds(chain, d) \/ d = c
<1>. DEFINE n == Len(chain)
            longer == Append(chain, c)
<1>1. /\ n \in Nat /\ DOMAIN chain = 1..n /\ DOMAIN longer = 1..(n + 1)
      /\ longer[n + 1] = c /\ \A k \in 1..n : longer[k] = chain[k]
  OBVIOUS
<1> HIDE DEF n, longer
<1>2. Distinct(longer)
  BY <1>1 DEF Distinct, Holds
<1>3. ASSUME NEW d PROVE Holds(longer, d) <=> Holds(chain, d) \/ d = c
  BY <1>1 DEF Holds
<1>4. QED
  BY <1>2, <1>3 DEF longer

LEMMA ChainShrinks ==
  ASSUME NEW S, NEW chain \in Seq(S), chain # <<>>, Distinct(chain)
  PROVE  /\ Distinct(Tail(chain)) /\ Holds(chain, Head(chain))
         /\ \A d : Holds(Tail(chain), d) <=> Holds(chain, d) /\ d # Head(chain)
<1>. DEFINE n == Len(chain)
            rest == Tail(chain)
<1>1. /\ n \in Nat \ {0} /\ DOMAIN chain = 1..n /\ DOMAIN rest = 1..(n - 1)
      /\ Head(chain) = chain[1] /\ \A k \in 1..(n - 1) : rest[k] = chain[k + 1]
  OBVIOUS
<1> HIDE DEF n, rest
<1>2. Distinct(rest)
  BY <1>1 DEF Distinct
<1>3. ASSUME NEW d PROVE Holds(rest, d) <=> Holds(chain, d) /\ d # chain[1]
  <2>1. ASSUME Holds(rest, d) PROVE Holds(chain, d) /\ d # chain[1]
    <3>1. PICK k \in 1..(n - 1) : rest[k] = d
      BY <1>1, <2>1 DEF Holds
    <3>2. k + 1 \in 1..n /\ chain[k + 1] = d /\ k + 1 # 1
      BY <1>1, <3>1
    <3>3. QED
      BY <1>1, <3>2 DEF Holds, Distinct
  <2>2. ASSUME Holds(chain, d), d # chain[1] PROVE Holds(rest, d)
    <3>1. PICK k \in 1..n : chain[k] = d
      BY <1>1, <2>2 DEF Holds
    <3>2. k - 1 \in 1..(n - 1) /\ rest[k - 1] = chain[(k - 1) + 1] /\ (k - 1) + 1 = k
      BY <1>1, <2>2, <3>1
    <3>3. QED
      BY <1>1, <3>1, <3>2 DEF Holds
  <2>3. QED
    BY <2>1, <2>2
<1>4. Holds(chain, chain[1])
  BY <1>1 DEF Holds
<1>5. QED
  BY <1>1, <1>2, <1>3, <1>4 DEF rest

\* A step of c that neither enters nor leaves a chain.
LEMMA TurnsKept ==
  ASSUME IInv, TurnsFit, NEW c \in Calls, Moves(c), mutations' = mutations, saves' = saves,
         call'[c].at = "queued" => c \in Mutators,
         c \in Mutators => (call[c].at \in Open <=> call'[c].at \in Open),
         c \in Mutators \cup Savers => (call[c].at \in Writing <=> call'[c].at \in Writing)
  PROVE  TurnsFit'
<1>1. /\ \A d \in Calls : call'[d].at = "queued" => d \in Mutators
      /\ \A d \in Mutators : call'[d].at \in Open <=> Holds(mutations, d)
      /\ \A d \in Mutators \cup Savers : call'[d].at \in Writing <=> Holds(saves, d)
  BY DEF TurnsFit, Moves, Calls
<1>2. QED
  BY <1>1 DEF TurnsFit, Holds, Distinct

LEMMA ChainsTyped ==
  ASSUME IInv
  PROVE  mutations \in Seq(Mutators) /\ saves \in Seq(Mutators \cup Savers)
BY DEF IInv, TypeOK

LEMMA BeginMutateTurns ==
  ASSUME IInv, TurnsFit, NEW c \in Calls, BeginMutate(c)
  PROVE  TurnsFit'
<1>1. /\ c \in Mutators /\ call[c].at = "idle" /\ saves' = saves
      /\ mutations' = Append(mutations, c)
  BY DEF BeginMutate, At
<1>2. call'[c].at = "queued" /\ \A d \in Calls : d # c => call'[d] = call[d]
  BY CallTyped DEF IInv, TypeOK, BeginMutate, Goto, CallRecord
<1>3. ~ Holds(mutations, c)
  BY <1>1 DEF TurnsFit, Open
<1>4. /\ Distinct(mutations')
      /\ \A d : Holds(mutations', d) <=> Holds(mutations, d) \/ d = c
  BY <1>1, <1>3, ChainsTyped, ChainGrows DEF TurnsFit
<1>5. \A d \in Mutators : call'[d].at \in Open <=> Holds(mutations', d)
  BY <1>1, <1>2, <1>4 DEF TurnsFit, Open, Calls
<1>6. \A d \in Mutators \cup Savers : call'[d].at \in Writing <=> Holds(saves', d)
  BY <1>1, <1>2 DEF TurnsFit, Writing, Calls
<1>7. QED
  BY <1>1, <1>2, <1>4, <1>5, <1>6 DEF TurnsFit

LEMMA JoinSavesTurns ==
  ASSUME IInv, TurnsFit, NEW c \in Calls, JoinSaves(c)
  PROVE  TurnsFit'
<1>1. /\ call[c].at = "mkdir" /\ mutations' = mutations
      /\ saves' = Append(saves, c)
  BY DEF JoinSaves, At
<1>2. call'[c].at = "saving" /\ \A d \in Calls : d # c => call'[d] = call[d]
  BY CallTyped DEF IInv, TypeOK, JoinSaves, Goto, CallRecord
<1>3. c \in Mutators \cup Savers
  BY <1>1, InvParts DEF Fits, Changing, Calls
<1>4. ~ Holds(saves, c)
  BY <1>1, <1>3 DEF TurnsFit, Writing
<1>5. /\ Distinct(saves')
      /\ \A d : Holds(saves', d) <=> Holds(saves, d) \/ d = c
  BY <1>1, <1>3, <1>4, ChainsTyped, ChainGrows DEF TurnsFit
<1>6. \A d \in Mutators : call'[d].at \in Open <=> Holds(mutations', d)
  BY <1>1, <1>2 DEF TurnsFit, Open, Calls
<1>7. \A d \in Mutators \cup Savers : call'[d].at \in Writing <=> Holds(saves', d)
  BY <1>1, <1>2, <1>5 DEF TurnsFit, Writing, Calls
<1>8. QED
  BY <1>1, <1>2, <1>5, <1>6, <1>7 DEF TurnsFit

\* A call that ends leaves the chains whose turn it had.
LEMMA SettleTurns ==
  ASSUME IInv, TurnsFit, NEW c \in Calls, NEW outcome \in Settled, Settle(c, outcome),
         call[c].at \in {"update", "saving", "rename", "record"}, c \notin Readers,
         \/ call[c].at \in Writing /\ IsNext(c, saves) /\ saves' = Tail(saves)
         \/ call[c].at \notin Writing /\ saves' = saves
  PROVE  TurnsFit'
<1>1. call'[c].at \notin Open \cup Writing /\ \A d \in Calls : d # c => call'[d] = call[d]
  BY DEF Settle, Cleared, IInv, TypeOK, Settled, Open, Writing
<1>2. c \in Mutators => IsNext(c, mutations) /\ mutations' = Tail(mutations)
  BY InvParts DEF Settle, Fits, Open
<1>3. c \notin Mutators => mutations' = mutations
  BY DEF Settle
<1>4. /\ Distinct(mutations')
      /\ \A d \in Mutators : Holds(mutations', d) <=> Holds(mutations, d) /\ d # c
  <2>1. CASE c \in Mutators
    BY <1>2, <2>1, ChainsTyped, ChainShrinks DEF TurnsFit, IsNext
  <2>2. CASE c \notin Mutators
    <3>1. \A d \in Mutators : d # c
      BY <2>2
    <3>2. QED
      BY <1>3, <2>2, <3>1 DEF TurnsFit
  <2>3. QED
    BY <2>1, <2>2
<1>5. /\ Distinct(saves')
      /\ \A d \in Mutators \cup Savers : Holds(saves', d) <=> Holds(saves, d) /\ d # c
  <2>1. CASE call[c].at \in Writing
    BY <2>1, ChainsTyped, ChainShrinks DEF TurnsFit, IsNext
  <2>2. CASE call[c].at \notin Writing
    BY <2>2 DEF TurnsFit
  <2>3. QED
    BY <2>1, <2>2
<1>6. \A d \in Mutators : call'[d].at \in Open <=> Holds(mutations', d)
  BY <1>1, <1>4 DEF TurnsFit, Calls
<1>7. \A d \in Mutators \cup Savers : call'[d].at \in Writing <=> Holds(saves', d)
  BY <1>1, <1>5 DEF TurnsFit, Calls
<1>8. \A d \in Calls : call'[d].at = "queued" => d \in Mutators
  BY <1>1 DEF TurnsFit, Open
<1>9. QED
  BY <1>4, <1>5, <1>6, <1>7, <1>8 DEF TurnsFit

LEMMA EndsTurns ==
  ASSUME IInv, TurnsFit, NEW c \in Calls, UpdaterThrows(c) \/ Record(c) \/ SaveFails(c)
  PROVE  TurnsFit'
<1>1. "done" \in Settled /\ "failed" \in Settled
  BY DEF Settled
<1>2. CASE UpdaterThrows(c)
  <2>1. Settle(c, "failed") /\ call[c].at = "update" /\ saves' = saves /\ c \notin Readers
    BY <1>2, StoreAssumption DEF UpdaterThrows, At
  <2>2. QED
    BY <1>1, <2>1, SettleTurns DEF Writing
<1>3. CASE Record(c)
  <2>1. Settle(c, "done") /\ call[c].at = "record" /\ saves' = Tail(saves)
    BY <1>3 DEF Record, At
  <2>2. IsNext(c, saves) /\ c \notin Readers
    BY <2>1, InvParts DEF Fits, Changing
  <2>3. QED
    BY <1>1, <2>1, <2>2, SettleTurns DEF Writing
<1>4. CASE SaveFails(c)
  <2>1. /\ Settle(c, "failed") /\ call[c].at \in {"saving", "rename"}
        /\ saves' = Tail(saves) /\ IsNext(c, saves)
    BY <1>4 DEF SaveFails, At
  <2>2. c \notin Readers
    BY <2>1, InvParts DEF Fits, Changing
  <2>3. QED
    BY <1>1, <2>1, <2>2, SettleTurns DEF Writing
<1>5. QED
  BY <1>2, <1>3, <1>4

\* The other steps keep a call open, or it is a reader's, which is in no chain.
LEMMA StaysTurns ==
  ASSUME IInv, TurnsFit, NEW c \in Calls,
         \/ BeginLoad(c) \/ Stat(c) \/ Unchanged(c) \/ Differs(c) \/ ReadFile(c) \/ Adopt(c)
         \/ Update(c) \/ WriteFile(c) \/ Rename(c)
  PROVE  TurnsFit'
<1>1. mutations' = mutations /\ saves' = saves
  BY DEF BeginLoad, Stat, Unchanged, Differs, ReadFile, Adopt, Update, WriteFile, Rename
<1>2. call \in [Calls -> CallRecord]
  BY DEF IInv, TypeOK, CallRecord, Place
<1>3. \A d \in Calls : d # c => call'[d] = call[d]
  BY <1>2 DEF BeginLoad, Stat, Unchanged, Differs, ReadFile, Adopt, Update, WriteFile, Rename,
     Goto, Loaded
<1>4. c \in Mutators => c \notin Readers
  BY StoreAssumption
<1>5. CASE BeginLoad(c) \/ Stat(c) \/ Differs(c) \/ ReadFile(c)
  <2>1. /\ call[c].at \in {"queued", "idle", "stat", "compare", "read"}
        /\ c \in Mutators => call[c].at \in Open
        /\ call'[c].at \in {"stat", "compare", "read", "parse"}
    BY <1>2, <1>5 DEF BeginLoad, Stat, Differs, ReadFile, Goto, At, CallRecord, Open
  <2>2. QED
    BY <1>1, <1>3, <2>1 DEF TurnsFit, Open, Writing, Calls
<1>6. CASE Unchanged(c) \/ Adopt(c)
  <2>1. /\ call[c].at \in {"compare", "parse"}
        /\ call'[c].at \in {"update", "done"}
        /\ call'[c].at = "done" => c \in Readers
    BY <1>2, <1>6 DEF Unchanged, Adopt, Loaded, At, Cleared
  <2>2. QED
    BY <1>1, <1>3, <1>4, <2>1 DEF TurnsFit, Open, Writing, Calls
<1>7. CASE Update(c) \/ WriteFile(c) \/ Rename(c)
  <2>1. \/ call[c].at = "update" /\ call'[c].at = "mkdir"
        \/ call[c].at \in {"saving", "rename"} /\ call'[c].at \in {"rename", "record"}
    BY <1>2, <1>7 DEF Update, WriteFile, Rename, At, Cleared, CallRecord
  <2>2. QED
    BY <1>1, <1>3, <2>1 DEF TurnsFit, Open, Writing, Calls
<1>8. QED
  BY <1>5, <1>6, <1>7

LEMMA ServerTurns ==
  ASSUME IInv, TurnsFit,
         \/ Boot \/ BootUnreadable \/ Crash \/ UNCHANGED vars
         \/ \E x \in Externals : ExternalChange(x)
  PROVE  TurnsFit'
<1>1. CASE Crash
  <2>1. mutations' = <<>> /\ saves' = <<>>
    BY <1>1 DEF Crash
  <2>2. \A c \in Calls : call'[c].at \notin Open
    BY <1>1 DEF Crash, Cleared, Open
  <2>3. \A c : ~ Holds(mutations', c) /\ ~ Holds(saves', c)
    BY <2>1 DEF Holds
  <2>4. Distinct(mutations') /\ Distinct(saves')
    BY <2>1 DEF Distinct
  <2>5. QED
    BY <2>2, <2>3, <2>4 DEF TurnsFit, Open, Writing, Calls
<1>2. CASE ~ Crash
  <2>1. UNCHANGED <<call, mutations, saves>>
    BY <1>2 DEF Boot, BootUnreadable, ExternalChange, vars
  <2>2. QED
    BY <2>1 DEF TurnsFit, Holds, Distinct
<1>3. QED
  BY <1>1, <1>2

LEMMA InitTurns == Init => TurnsFit
BY DEF Init, TurnsFit, Holds, Distinct, Cleared, Open, Writing, Calls

LEMMA NextTurns == IInv /\ TurnsFit /\ [Next]_vars => TurnsFit'
<1>1. SUFFICES ASSUME IInv, TurnsFit, [Next]_vars PROVE TurnsFit'
  OBVIOUS
<1>2. ASSUME NEW c \in Calls, BeginMutate(c) \/ BeginLoad(c) \/ Step(c)
      PROVE  TurnsFit'
  BY <1>1, <1>2, BeginMutateTurns, StaysTurns, JoinSavesTurns, EndsTurns DEF Step
<1>3. QED
  BY <1>1, <1>2, ServerTurns DEF Next

\* The first of the mutation chain has the turn; when it waits for its save, the
\* first of the save chain is writing.
LEMMA TurnsGoOn == IInv /\ TurnsFit => SomeCallGoesOn
<1>1. SUFFICES ASSUME IInv, TurnsFit, NEW c \in Calls, call[c].at \in Open
               PROVE  \E d \in Calls : MayGoOn(d)
  BY DEF SomeCallGoesOn
<1>2. ASSUME NEW d \in Calls, call[d].at = "saving"
      PROVE  \E e \in Calls : MayGoOn(e)
  <2>1. d \in Mutators \cup Savers
    BY <1>1, <1>2, InvParts DEF Fits, Changing, Calls
  <2>2. Holds(saves, d)
    BY <1>1, <1>2, <2>1 DEF TurnsFit, Writing
  <2>3. saves # <<>>
    BY <2>2 DEF Holds
  <2>4. PICK e \in Mutators \cup Savers : e = Head(saves)
    BY <1>1, <2>3, ChainsTyped
  <2>5. Holds(saves, e)
    BY <1>1, <2>3, <2>4, ChainsTyped, ChainShrinks DEF TurnsFit
  <2>6. call[e].at \in Writing
    BY <1>1, <2>5 DEF TurnsFit
  <2>7. MayGoOn(e) /\ e \in Calls
    BY <2>3, <2>4, <2>6 DEF MayGoOn, IsNext, Writing, Open, Calls
  <2>8. QED
    BY <2>7
<1>3. CASE call[c].at = "queued"
  <2>1. c \in Mutators
    BY <1>1, <1>3 DEF TurnsFit
  <2>2. mutations # <<>>
    BY <1>1, <2>1 DEF TurnsFit, Holds
  <2>3. PICK d \in Mutators : d = Head(mutations)
    BY <1>1, <2>2, ChainsTyped
  <2>4. Holds(mutations, d)
    BY <1>1, <2>2, <2>3, ChainsTyped, ChainShrinks DEF TurnsFit
  <2>5. call[d].at \in Open /\ IsNext(d, mutations) /\ d \in Calls
    BY <1>1, <2>2, <2>3, <2>4 DEF TurnsFit, IsNext, Calls
  <2>6. QED
    BY <1>2, <2>5 DEF MayGoOn
<1>4. QED
  BY <1>1, <1>2, <1>3 DEF MayGoOn

\* As long as a call of the store is under way, some call can go on: the
\* mutation chain and the save chain never wait for each other, and neither keeps
\* a call that has ended, not even one that failed.
THEOREM TurnsTheorem == Spec => []SomeCallGoesOn
BY InitInv, NextInv, InitTurns, NextTurns, TurnsGoOn, PTL DEF Spec
=============================================================================
