----------------------------- MODULE BufferPoolProofs -----------------------------
(***************************************************************************)
(* Proofs about BufferPool, for any number of pages, frames and values.    *)
(***************************************************************************)
EXTENDS BufferPool, TLAPS

(* last_used orders the frames by their last fetch: two frames used at all *)
(* differ, and none is newer than the counter.                             *)
UseOrder ==
    /\ \A f \in Frames : frames[f].last_used <= access_counter
    /\ \A f \in Frames : frames[f].page # NoPage => frames[f].last_used > 0
    /\ \A f, g \in Frames :
          frames[f].last_used = frames[g].last_used /\ frames[f].last_used > 0 => f = g

(* The page read behind its unpin is cached, and of the frames that are    *)
(* not pinned its frame is the one used last.                              *)
PeekedIsNewest ==
    peek # NoPage =>
        \E f \in Holding(peek) :
            \A g \in Unpinned \ {f} : frames[g].last_used < frames[f].last_used

IInv ==
    /\ TypeOK
    /\ PageInOneFrame
    /\ CleanFrameMatchesDisk
    /\ TouchedIsPinned
    /\ UseOrder

(* Blank is a content.                                                     *)
LEMMA BlankIsValue == Blank \in Values
BY PoolAssumption DEF Blank

(* Flushing a set of frames leaves a content on disk for every page.       *)
LEMMA FlushedType ==
    ASSUME TypeOK, NEW F \in SUBSET Frames
    PROVE  Flushed(F) \in [Pages -> Values]
<1> SUFFICES ASSUME NEW p \in Pages, \E f \in DirtyIn(F) : frames[f].page = p
             PROVE  frames[CHOOSE f \in DirtyIn(F) : frames[f].page = p].data \in Values
  BY DEF Flushed, TypeOK
<1>1. PICK f \in DirtyIn(F) : frames[f].page = p
  OBVIOUS
<1>2. (CHOOSE g \in DirtyIn(F) : frames[g].page = p) \in DirtyIn(F)
  BY <1>1
<1> QED
  BY <1>2 DEF DirtyIn, TypeOK, Frame

(* Flushing writes the data of a dirty frame and nothing to other pages.   *)
LEMMA FlushedOne ==
    ASSUME TypeOK, PageInOneFrame, NEW F \in SUBSET Frames, NEW p \in Pages
    PROVE  /\ \A f \in F : frames[f].page = p /\ frames[f].dirty
                              => Flushed(F)[p] = frames[f].data
           /\ (\A f \in F : ~(frames[f].page = p /\ frames[f].dirty))
                              => Flushed(F)[p] = disk[p]
<1>1. ASSUME NEW f \in F, frames[f].page = p, frames[f].dirty
      PROVE  Flushed(F)[p] = frames[f].data
  <2>1. f \in DirtyIn(F)
    BY <1>1, PoolAssumption DEF DirtyIn
  <2>2. \A g \in DirtyIn(F) : frames[g].page = p => g = f
    BY <1>1, PoolAssumption DEF DirtyIn, PageInOneFrame
  <2>3. (CHOOSE g \in DirtyIn(F) : frames[g].page = p) = f
    BY <2>1, <2>2, <1>1
  <2> QED
    BY <2>1, <2>3, <1>1 DEF Flushed
<1>2. ASSUME \A f \in F : ~(frames[f].page = p /\ frames[f].dirty)
      PROVE  Flushed(F)[p] = disk[p]
  BY <1>2 DEF Flushed, DirtyIn
<1> QED
  BY <1>1, <1>2

(* The frame that evict_and_use hands out is unpinned or free, and in      *)
(* either case no frame holds the page that missed.                        *)
LEMMA UsableFrame ==
    ASSUME TypeOK, NEW f \in Frames, Usable(f)
    PROVE  frames[f].page = NoPage \/ frames[f].pin_count = 0
BY DEF Usable, Free, Holding, Unpinned

-----------------------------------------------------------------------------
(* One lemma per action: it preserves the inductive invariant.             *)

LEMMA FetchHitInv ==
    ASSUME IInv, NEW p \in Pages, FetchHit(p)
    PROVE  IInv'
<1>0. PICK f \in Frames :
        /\ frames[f].page = p
        /\ frames' = [frames EXCEPT ![f].pin_count = @ + 1,
                                    ![f].last_used = access_counter + 1]
  BY DEF FetchHit, Holding
<1>u. /\ access_counter' = access_counter + 1
      /\ disk' = disk /\ touched' = touched /\ peek' = peek
  BY DEF FetchHit
<1>a. frames[f] \in Frame /\ access_counter \in Nat
  BY DEF IInv, TypeOK
<1>b. frames'[f] = [page |-> p, pin_count |-> frames[f].pin_count + 1,
                    dirty |-> frames[f].dirty, last_used |-> access_counter + 1,
                    data |-> frames[f].data]
  BY <1>0, <1>a DEF IInv, TypeOK, Frame
<1>c. \A g \in Frames \ {f} : frames'[g] = frames[g]
  BY <1>0 DEF IInv, TypeOK
<1>d. frames'[f] \in Frame
  BY <1>a, <1>b DEF Frame
<1>1. TypeOK'
  <2>1. frames' \in [Frames -> Frame]
    BY <1>0, <1>d DEF IInv, TypeOK
  <2> QED
    BY <1>u, <1>a, <2>1 DEF IInv, TypeOK
<1>2. \A g \in Frames : /\ frames'[g].page = frames[g].page
                        /\ frames'[g].dirty = frames[g].dirty
                        /\ frames'[g].data = frames[g].data
                        /\ frames[g].pin_count > 0 => frames'[g].pin_count > 0
  <2> TAKE g \in Frames
  <2>1. CASE g = f
    BY <1>0, <1>a, <1>b, <2>1 DEF Frame
  <2>2. CASE g # f
    BY <1>c, <2>2
  <2> QED
    BY <2>1, <2>2
<1>3. PageInOneFrame'
  BY <1>2 DEF IInv, PageInOneFrame
<1>4. CleanFrameMatchesDisk'
  BY <1>u, <1>2 DEF IInv, CleanFrameMatchesDisk
<1>5. TouchedIsPinned'
  BY <1>u, <1>2 DEF IInv, TouchedIsPinned, Holding
<1>6. UseOrder'
  BY <1>u, <1>a, <1>b, <1>c DEF IInv, UseOrder, TypeOK, Frame
<1> QED
  BY <1>1, <1>3, <1>4, <1>5, <1>6 DEF IInv

LEMMA FetchMissInv ==
    ASSUME IInv, NEW p \in Pages, FetchMiss(p)
    PROVE  IInv'
<1> USE DEF IInv
<1>0. PICK f \in Frames :
        /\ Usable(f)
        /\ disk' = Flushed({f})
        /\ frames' = [frames EXCEPT ![f] =
              [page |-> p, pin_count |-> 1, dirty |-> FALSE,
               last_used |-> access_counter + 1, data |-> disk[p]]]
  BY DEF FetchMiss
<1>a. /\ \A g \in Frames : frames[g].page # p
      /\ access_counter' = access_counter + 1
      /\ UNCHANGED <<touched, peek>>
  BY DEF FetchMiss, Cached, Holding
<1>b. frames[f].page = NoPage \/ frames[f].pin_count = 0
  BY <1>0, UsableFrame
<1>c. disk' \in [Pages -> Values]
  BY <1>0, FlushedType
<1>d. frames'[f] = [page |-> p, pin_count |-> 1, dirty |-> FALSE,
                    last_used |-> access_counter + 1, data |-> disk[p]]
  BY <1>0 DEF TypeOK
<1>e. \A g \in Frames \ {f} : frames'[g] = frames[g]
  BY <1>0 DEF TypeOK
<1>f. disk[p] \in Values
  BY DEF TypeOK
<1>1. TypeOK'
  <2>1. frames'[f] \in Frame
    BY <1>d, <1>f DEF TypeOK, Frame
  <2>2. frames' \in [Frames -> Frame]
    BY <2>1, <1>0 DEF TypeOK
  <2> QED
    BY <1>a, <1>c, <2>2 DEF TypeOK
<1>2. PageInOneFrame'
  BY <1>a, <1>d, <1>e DEF PageInOneFrame
<1>3. CleanFrameMatchesDisk'
  <2> SUFFICES ASSUME NEW g \in Frames, frames'[g].page # NoPage, ~frames'[g].dirty,
                      frames'[g].page \notin touched
               PROVE  frames'[g].data = disk'[frames'[g].page]
    BY <1>a DEF CleanFrameMatchesDisk
  <2>1. CASE g = f
    <3>1. disk'[p] = disk[p]
      BY <1>0, <1>a, FlushedOne
    <3> QED
      BY <2>1, <3>1, <1>d
  <2>2. CASE g # f
    <3>1. frames[g].page # frames[f].page
      BY <2>2, <1>e DEF PageInOneFrame
    <3>2. frames[g].page \in Pages
      BY <2>2, <1>e DEF TypeOK, Frame
    <3>3. disk'[frames[g].page] = disk[frames[g].page]
      BY <1>0, <3>1, <3>2, FlushedOne
    <3> QED
      BY <2>2, <1>e, <3>3 DEF CleanFrameMatchesDisk
  <2> QED
    BY <2>1, <2>2
<1>4. TouchedIsPinned'
  <2> SUFFICES ASSUME NEW q \in touched
               PROVE  \E g \in Frames : frames'[g].page = q /\ frames'[g].pin_count > 0
    BY <1>a DEF TouchedIsPinned, Holding
  <2>1. PICK g \in Frames : frames[g].page = q /\ frames[g].pin_count > 0
    BY DEF TouchedIsPinned, Holding
  <2>2. q # NoPage
    BY PoolAssumption DEF TypeOK
  <2>3. g # f
    BY <1>b, <2>1, <2>2
  <2> QED
    BY <2>1, <2>3, <1>e
<1>5. UseOrder'
  BY <1>a, <1>d, <1>e DEF UseOrder, TypeOK, Frame
<1> QED
  BY <1>1, <1>2, <1>3, <1>4, <1>5

LEMMA FetchReadErrorInv ==
    ASSUME IInv, NEW p \in Pages, FetchReadError(p)
    PROVE  IInv'
<1>0. PICK f \in Frames, junk \in Values :
        /\ Usable(f)
        /\ disk' = Flushed({f})
        /\ frames' = [frames EXCEPT ![f] =
              [page |-> NoPage, pin_count |-> 0, dirty |-> FALSE,
               last_used |-> frames[f].last_used, data |-> junk]]
  BY DEF FetchReadError
<1>u. access_counter' = access_counter + 1 /\ touched' = touched /\ peek' = NoPage
  BY DEF FetchReadError
<1>b. frames[f].page = NoPage \/ frames[f].pin_count = 0
  BY <1>0, UsableFrame DEF IInv
<1>c. disk' \in [Pages -> Values]
  BY <1>0, FlushedType DEF IInv
<1>d. frames'[f] = [page |-> NoPage, pin_count |-> 0, dirty |-> FALSE,
                    last_used |-> frames[f].last_used, data |-> junk]
  BY <1>0 DEF IInv, TypeOK
<1>e. \A g \in Frames \ {f} : frames'[g] = frames[g]
  BY <1>0 DEF IInv, TypeOK
<1>1. TypeOK'
  <2>1. frames[f] \in Frame
    BY DEF IInv, TypeOK
  <2>2. frames'[f] \in Frame
    BY <1>d, <2>1 DEF Frame
  <2>3. frames' \in [Frames -> Frame]
    BY <2>2, <1>0 DEF IInv, TypeOK
  <2> QED
    BY <1>u, <1>c, <2>3 DEF IInv, TypeOK
<1>2. PageInOneFrame'
  BY <1>d, <1>e DEF IInv, PageInOneFrame
<1>3. CleanFrameMatchesDisk'
  <2> SUFFICES ASSUME NEW g \in Frames, frames'[g].page # NoPage, ~frames'[g].dirty,
                      frames'[g].page \notin touched
               PROVE  frames'[g].data = disk'[frames'[g].page]
    BY <1>u DEF CleanFrameMatchesDisk
  <2>0. g # f /\ frames'[g] = frames[g]
    BY <1>d, <1>e
  <2>1. frames[g].page # frames[f].page
    BY <2>0 DEF IInv, PageInOneFrame
  <2>2. frames[g].page \in Pages
    BY <2>0 DEF IInv, TypeOK, Frame
  <2>3. disk'[frames[g].page] = disk[frames[g].page]
    BY <1>0, <2>1, <2>2, FlushedOne DEF IInv
  <2> QED
    BY <2>0, <2>3 DEF IInv, CleanFrameMatchesDisk
<1>4. TouchedIsPinned'
  <2> SUFFICES ASSUME NEW q \in touched
               PROVE  \E g \in Frames : frames'[g].page = q /\ frames'[g].pin_count > 0
    BY <1>u DEF TouchedIsPinned, Holding
  <2>1. PICK g \in Frames : frames[g].page = q /\ frames[g].pin_count > 0
    BY DEF IInv, TouchedIsPinned, Holding
  <2>2. q # NoPage
    BY PoolAssumption DEF IInv, TypeOK
  <2>3. g # f
    BY <1>b, <2>1, <2>2
  <2> QED
    BY <2>1, <2>3, <1>e
<1>5. UseOrder'
  BY <1>u, <1>d, <1>e DEF IInv, UseOrder, TypeOK, Frame
<1> QED
  BY <1>1, <1>2, <1>3, <1>4, <1>5 DEF IInv

LEMMA WritePageInv ==
    ASSUME IInv, NEW p \in Pages, NEW v \in Values, WritePage(p, v)
    PROVE  IInv'
<1>0. PICK f \in Frames : /\ frames[f].page = p /\ frames[f].pin_count > 0
                          /\ frames' = [frames EXCEPT ![f].data = v]
  BY DEF WritePage, Holding
<1>u. /\ touched' = touched \union {p}
      /\ access_counter' = access_counter /\ disk' = disk /\ peek' = peek
  BY DEF WritePage
<1>a. frames[f] \in Frame
  BY DEF IInv, TypeOK
<1>b. frames'[f] = [frames[f] EXCEPT !.data = v] /\ frames'[f] \in Frame
  BY <1>0, <1>a DEF IInv, TypeOK, Frame
<1>c. \A g \in Frames \ {f} : frames'[g] = frames[g]
  BY <1>0 DEF IInv, TypeOK
<1>d. \A g \in Frames : /\ frames'[g].page = frames[g].page
                        /\ frames'[g].dirty = frames[g].dirty
                        /\ frames'[g].pin_count = frames[g].pin_count
                        /\ frames'[g].last_used = frames[g].last_used
  BY <1>a, <1>b, <1>c DEF Frame
<1>1. TypeOK'
  <2>1. frames' \in [Frames -> Frame]
    BY <1>0, <1>b DEF IInv, TypeOK
  <2> QED
    BY <1>u, <2>1 DEF IInv, TypeOK
<1>2. PageInOneFrame'
  BY <1>d DEF IInv, PageInOneFrame
<1>3. CleanFrameMatchesDisk'
  BY <1>0, <1>c, <1>d, <1>u DEF IInv, CleanFrameMatchesDisk
<1>4. TouchedIsPinned'
  BY <1>0, <1>d, <1>u DEF IInv, TouchedIsPinned, Holding
<1>5. UseOrder'
  BY <1>d, <1>u DEF IInv, UseOrder
<1> QED
  BY <1>1, <1>2, <1>3, <1>4, <1>5 DEF IInv

LEMMA MarkDirtyInv ==
    ASSUME IInv, NEW p \in Pages, MarkDirty(p)
    PROVE  IInv'
<1>0. PICK f \in Frames : /\ frames[f].page = p
                          /\ frames' = [frames EXCEPT ![f].dirty = TRUE]
  BY DEF MarkDirty, Holding
<1>u. /\ touched' = touched \ {p}
      /\ access_counter' = access_counter /\ disk' = disk /\ peek' = peek
  BY DEF MarkDirty
<1>a. frames[f] \in Frame
  BY DEF IInv, TypeOK
<1>b. frames'[f] = [frames[f] EXCEPT !.dirty = TRUE] /\ frames'[f] \in Frame
  BY <1>0, <1>a DEF IInv, TypeOK, Frame
<1>c. \A g \in Frames \ {f} : frames'[g] = frames[g]
  BY <1>0 DEF IInv, TypeOK
<1>d. \A g \in Frames : /\ frames'[g].page = frames[g].page
                        /\ frames'[g].data = frames[g].data
                        /\ frames'[g].pin_count = frames[g].pin_count
                        /\ frames'[g].last_used = frames[g].last_used
  BY <1>a, <1>b, <1>c DEF Frame
<1>1. TypeOK'
  <2>1. frames' \in [Frames -> Frame]
    BY <1>0, <1>b DEF IInv, TypeOK
  <2> QED
    BY <1>u, <2>1 DEF IInv, TypeOK
<1>2. PageInOneFrame'
  BY <1>d DEF IInv, PageInOneFrame
<1>3. CleanFrameMatchesDisk'
  <2> SUFFICES ASSUME NEW g \in Frames, frames'[g].page # NoPage, ~frames'[g].dirty,
                      frames'[g].page \notin touched'
               PROVE  frames'[g].data = disk'[frames'[g].page]
    BY DEF CleanFrameMatchesDisk
  <2>1. frames'[f].dirty
    BY <1>a, <1>b DEF Frame
  <2>2. g # f /\ frames'[g] = frames[g]
    BY <2>1, <1>c
  <2>3. frames[g].page # p
    BY <1>0, <2>2 DEF IInv, PageInOneFrame
  <2> QED
    BY <1>u, <2>2, <2>3 DEF IInv, CleanFrameMatchesDisk
<1>4. TouchedIsPinned'
  BY <1>d, <1>u DEF IInv, TouchedIsPinned, Holding
<1>5. UseOrder'
  BY <1>d, <1>u DEF IInv, UseOrder
<1> QED
  BY <1>1, <1>2, <1>3, <1>4, <1>5 DEF IInv

LEMMA UnpinInv ==
    ASSUME IInv, NEW p \in Pages, Unpin(p)
    PROVE  IInv'
<1>0. PICK f \in Frames : /\ frames[f].page = p
                          /\ frames[f].pin_count > IF p \in touched THEN 1 ELSE 0
                          /\ frames' = [frames EXCEPT ![f].pin_count = @ - 1]
                          /\ peek' \in {NoPage, p}
  BY DEF Unpin, Holding
<1>u. /\ touched' = touched
      /\ access_counter' = access_counter /\ disk' = disk
  BY DEF Unpin
<1>a. frames[f] \in Frame
  BY DEF IInv, TypeOK
<1>b. frames'[f] = [frames[f] EXCEPT !.pin_count = @ - 1] /\ frames'[f] \in Frame
  BY <1>0, <1>a DEF IInv, TypeOK, Frame
<1>c. \A g \in Frames \ {f} : frames'[g] = frames[g]
  BY <1>0 DEF IInv, TypeOK
<1>d. \A g \in Frames : /\ frames'[g].page = frames[g].page
                        /\ frames'[g].data = frames[g].data
                        /\ frames'[g].dirty = frames[g].dirty
                        /\ frames'[g].last_used = frames[g].last_used
  BY <1>a, <1>b, <1>c DEF Frame
<1>1. TypeOK'
  <2>1. frames' \in [Frames -> Frame]
    BY <1>0, <1>b DEF IInv, TypeOK
  <2> QED
    BY <1>0, <1>u, <2>1 DEF IInv, TypeOK
<1>2. PageInOneFrame'
  BY <1>d DEF IInv, PageInOneFrame
<1>3. CleanFrameMatchesDisk'
  BY <1>d, <1>u DEF IInv, CleanFrameMatchesDisk
<1>4. TouchedIsPinned'
  <2> SUFFICES ASSUME NEW q \in touched
               PROVE  \E g \in Frames : frames'[g].page = q /\ frames'[g].pin_count > 0
    BY <1>u DEF TouchedIsPinned, Holding
  <2>1. PICK g \in Frames : frames[g].page = q /\ frames[g].pin_count > 0
    BY DEF IInv, TouchedIsPinned, Holding
  <2>2. CASE g = f
    <3>1. p \in touched /\ frames[f].pin_count > 1
      BY <2>1, <2>2, <1>0
    <3>2. frames[f].pin_count \in Nat /\ frames'[f].pin_count = frames[f].pin_count - 1
      BY <1>a, <1>b DEF Frame
    <3>3. frames'[f].pin_count > 0
      BY ONLY <3>1, <3>2
    <3> QED
      BY <2>1, <2>2, <3>3, <1>d
  <2>3. CASE g # f
    BY <2>1, <2>3, <1>c
  <2> QED
    BY <2>2, <2>3
<1>5. UseOrder'
  BY <1>d, <1>u DEF IInv, UseOrder
<1> QED
  BY <1>1, <1>2, <1>3, <1>4, <1>5 DEF IInv

LEMMA ReplaceInv ==
    ASSUME IInv, Replace
    PROVE  IInv'
<1>u. /\ touched' = {} /\ access_counter' = 0 /\ peek' = NoPage
      /\ disk' = Flushed(Frames) /\ frames' = [f \in Frames |-> NewFrame]
  BY DEF Replace
<1>1. TypeOK'
  <2>1. disk' \in [Pages -> Values]
    BY <1>u, FlushedType DEF IInv
  <2>2. NewFrame \in Frame
    BY BlankIsValue DEF NewFrame, Frame
  <2> QED
    BY <1>u, <2>1, <2>2 DEF TypeOK
<1>2. \A g \in Frames : frames'[g].page = NoPage /\ frames'[g].last_used = 0
  BY <1>u DEF NewFrame
<1>3. PageInOneFrame' /\ CleanFrameMatchesDisk' /\ TouchedIsPinned'
  BY <1>u, <1>2 DEF PageInOneFrame, CleanFrameMatchesDisk, TouchedIsPinned
<1>4. UseOrder'
  BY <1>u, <1>2 DEF UseOrder
<1> QED
  BY <1>1, <1>3, <1>4 DEF IInv

-----------------------------------------------------------------------------
LEMMA InitInv == Init => IInv
<1> SUFFICES ASSUME Init PROVE IInv
  OBVIOUS
<1>1. TypeOK
  BY BlankIsValue DEF Init, TypeOK, NewFrame, Frame
<1>2. \A g \in Frames : frames[g].page = NoPage /\ frames[g].last_used = 0
  BY DEF Init, NewFrame
<1>3. PageInOneFrame /\ CleanFrameMatchesDisk /\ TouchedIsPinned
  BY <1>2 DEF Init, PageInOneFrame, CleanFrameMatchesDisk, TouchedIsPinned
<1>4. UseOrder
  BY <1>2 DEF Init, UseOrder
<1> QED
  BY <1>1, <1>3, <1>4 DEF IInv

LEMMA NextInv == IInv /\ [Next]_vars => IInv'
<1> SUFFICES ASSUME IInv, [Next]_vars PROVE IInv'
  OBVIOUS
<1>1. CASE UNCHANGED vars
  BY <1>1 DEF IInv, vars, TypeOK, PageInOneFrame, CleanFrameMatchesDisk,
              TouchedIsPinned, UseOrder, Holding
<1>2. ASSUME NEW p \in Pages, FetchHit(p) PROVE IInv'
  BY <1>2, FetchHitInv
<1>3. ASSUME NEW p \in Pages, FetchMiss(p) PROVE IInv'
  BY <1>3, FetchMissInv
<1>4. ASSUME NEW p \in Pages, FetchReadError(p) PROVE IInv'
  BY <1>4, FetchReadErrorInv
<1>5. ASSUME NEW p \in Pages, FetchNoFrame(p) PROVE IInv'
  BY <1>5 DEF FetchNoFrame, IInv, TypeOK, PageInOneFrame, CleanFrameMatchesDisk,
              TouchedIsPinned, UseOrder, Holding, Frame
<1>6. ASSUME NEW p \in Pages, MarkDirty(p) PROVE IInv'
  BY <1>6, MarkDirtyInv
<1>7. ASSUME NEW p \in Pages, Unpin(p) PROVE IInv'
  BY <1>7, UnpinInv
<1>8. ASSUME NEW p \in Pages, NEW v \in Values, WritePage(p, v) PROVE IInv'
  BY <1>8, WritePageInv
<1>9. CASE Replace
  BY <1>9, ReplaceInv
<1> QED
  BY <1>1, <1>2, <1>3, <1>4, <1>5, <1>6, <1>7, <1>8, <1>9 DEF Next

THEOREM PoolInvariant == Spec => []IInv
BY InitInv, NextInv, PTL DEF Spec

(* The bookkeeping of the pool is type correct, whatever its callers do.   *)
THEOREM PoolTypeOK == Spec => []TypeOK
BY PoolInvariant, PTL DEF IInv

(* No page is ever in two frames.                                          *)
THEOREM OneFramePerPage == Spec => []PageInOneFrame
BY PoolInvariant, PTL DEF IInv

(* A clean frame can be dropped: it is what the file holds.                *)
THEOREM CleanFramesMatchDisk == Spec => []CleanFrameMatchesDisk
BY PoolInvariant, PTL DEF IInv

-----------------------------------------------------------------------------
(* The read behind an unpin, in split_leaf.                                *)

LEMMA PeekInit == Init => PeekedIsNewest
BY DEF Init, PeekedIsNewest

(* Of two frames that are not pinned the one used last is not evicted.     *)
LEMMA NewestIsNotEvicted ==
    ASSUME TypeOK, NEW f \in Frames, Usable(f), NEW h \in Frames, frames[h].page # NoPage,
           \A g \in Unpinned \ {h} : frames[g].last_used < frames[h].last_used,
           NEW g \in Unpinned \ {h}
    PROVE  f # h
<1>1. CASE Free # {}
  BY <1>1 DEF Usable, Free, Holding
<1>2. CASE Free = {}
  <2> SUFFICES ASSUME f = h PROVE FALSE
    OBVIOUS
  <2>1. frames[g].last_used < frames[h].last_used
    OBVIOUS
  <2>2. OlderOrFirst(h, g)
    BY <1>2 DEF Usable
  <2>3. frames[g].last_used \in Nat /\ frames[h].last_used \in Nat
    BY DEF TypeOK, Frame, Unpinned
  <2> QED
    BY <2>1, <2>2, <2>3 DEF OlderOrFirst
<1> QED
  BY <1>1, <1>2

LEMMA PeekNext ==
    ASSUME IInv, PeekedIsNewest, [Next]_vars
    PROVE  PeekedIsNewest'
<1>0. TypeOK /\ NoPage \notin Pages
  BY PoolAssumption DEF IInv
<1> DEFINE Newest(h) ==
             /\ frames[h].page = peek
             /\ \A g \in Frames \ {h} : frames[g].pin_count = 0
                    => frames[g].last_used < frames[h].last_used
           Goal == \E h \in Frames :
                     /\ frames'[h].page = peek'
                     /\ \A g \in Frames \ {h} : frames'[g].pin_count = 0
                            => frames'[g].last_used < frames'[h].last_used
<1> SUFFICES ASSUME peek' # NoPage PROVE Goal
  BY DEF PeekedIsNewest, Holding, Unpinned
<1>old. ASSUME peek # NoPage PROVE \E h \in Frames : Newest(h)
  BY <1>old DEF PeekedIsNewest, Holding, Unpinned
<1>1. CASE UNCHANGED vars
  BY <1>1, <1>old DEF vars
<1>2. ASSUME NEW p \in Pages, FetchHit(p) PROVE Goal
  <2>1. peek' = peek /\ p # peek
    BY <1>2 DEF FetchHit, MayFetch
  <2>2. PICK h \in Frames : Newest(h)
    BY <2>1, <1>old
  <2>3. PICK f \in Frames :
           /\ frames[f].page = p
           /\ frames' = [frames EXCEPT ![f].pin_count = @ + 1,
                                       ![f].last_used = access_counter + 1]
    BY <1>2 DEF FetchHit, Holding
  <2>4. f # h
    BY <2>1, <2>2, <2>3
  <2>5. frames[f].pin_count \in Nat /\ frames'[f].pin_count = frames[f].pin_count + 1
    BY <2>3, <1>0 DEF TypeOK, Frame
  <2>6. frames'[f].pin_count # 0
    BY ONLY <2>5
  <2>7. \A g \in Frames \ {f} : frames'[g] = frames[g]
    BY <2>3, <1>0 DEF TypeOK
  <2> QED
    BY <2>1, <2>2, <2>4, <2>6, <2>7
<1>3. ASSUME NEW p \in Pages, FetchMiss(p) PROVE Goal
  <2>1. peek' = peek /\ \E g \in Unpinned : frames[g].page # peek
    BY <1>3 DEF FetchMiss, MayFetch
  <2>2. PICK h \in Frames : Newest(h)
    BY <2>1, <1>old
  <2>3. PICK f \in Frames :
           /\ Usable(f)
           /\ frames' = [frames EXCEPT ![f] =
                 [page |-> p, pin_count |-> 1, dirty |-> FALSE,
                  last_used |-> access_counter + 1, data |-> disk[p]]]
    BY <1>3 DEF FetchMiss
  <2>4. PICK g \in Unpinned : frames[g].page # peek
    BY <2>1
  <2>5. /\ g \in Unpinned \ {h} /\ frames[h].page # NoPage
        /\ \A e \in Unpinned \ {h} : frames[e].last_used < frames[h].last_used
    BY <2>1, <2>2, <2>4 DEF Unpinned
  <2>6. f # h
    BY <1>0, <2>3, <2>5, NewestIsNotEvicted
  <2>7. frames'[f].pin_count = 1 /\ \A e \in Frames \ {f} : frames'[e] = frames[e]
    BY <2>3, <1>0 DEF TypeOK
  <2> QED
    BY <2>1, <2>2, <2>6, <2>7
<1>4. ASSUME NEW p \in Pages, FetchReadError(p) PROVE Goal
  BY <1>4 DEF FetchReadError
<1>5. ASSUME NEW p \in Pages, FetchNoFrame(p) PROVE Goal
  BY <1>5, <1>old DEF FetchNoFrame
<1>6. ASSUME NEW p \in Pages, MarkDirty(p) PROVE Goal
  <2>1. PICK f \in Frames : frames' = [frames EXCEPT ![f].dirty = TRUE]
    BY <1>6 DEF MarkDirty, Holding
  <2>2. frames[f] \in Frame
    BY <1>0 DEF TypeOK
  <2>3. \A g \in Frames : /\ frames'[g].page = frames[g].page
                          /\ frames'[g].pin_count = frames[g].pin_count
                          /\ frames'[g].last_used = frames[g].last_used
    BY <2>1, <2>2, <1>0 DEF TypeOK, Frame
  <2> QED
    BY <1>6, <2>3, <1>old DEF MarkDirty
<1>7. ASSUME NEW p \in Pages, Unpin(p) PROVE Goal
  <2>1. PICK f \in Frames :
           /\ frames[f].page = p
           /\ frames[f].last_used = access_counter
           /\ frames' = [frames EXCEPT ![f].pin_count = @ - 1]
           /\ peek' = p
    BY <1>7 DEF Unpin, Holding
  <2>2. frames[f] \in Frame /\ p # NoPage
    BY <1>0 DEF TypeOK
  <2>3. \A g \in Frames : /\ frames'[g].page = frames[g].page
                          /\ frames'[g].last_used = frames[g].last_used
    BY <2>1, <2>2, <1>0 DEF TypeOK, Frame
  <2>4. \A g \in Frames \ {f} : frames[g].last_used < frames[f].last_used
    <3> TAKE g \in Frames \ {f}
    <3>1. frames[g].last_used <= access_counter /\ frames[g].last_used # frames[f].last_used
      BY <2>1, <2>2 DEF IInv, UseOrder
    <3>2. frames[g].last_used \in Nat /\ access_counter \in Nat
      BY <1>0 DEF TypeOK, Frame
    <3> QED
      BY <3>1, <3>2, <2>1
  <2> QED
    BY <2>1, <2>3, <2>4
<1>8. ASSUME NEW p \in Pages, NEW v \in Values, WritePage(p, v) PROVE Goal
  <2>1. PICK f \in Frames : frames' = [frames EXCEPT ![f].data = v]
    BY <1>8 DEF WritePage, Holding
  <2>2. frames[f] \in Frame
    BY <1>0 DEF TypeOK
  <2>3. \A g \in Frames : /\ frames'[g].page = frames[g].page
                          /\ frames'[g].pin_count = frames[g].pin_count
                          /\ frames'[g].last_used = frames[g].last_used
    BY <2>1, <2>2, <1>0 DEF TypeOK, Frame
  <2> QED
    BY <1>8, <2>3, <1>old DEF WritePage
<1>9. CASE Replace
  BY <1>9 DEF Replace
<1> QED
  BY <1>1, <1>2, <1>3, <1>4, <1>5, <1>6, <1>7, <1>8, <1>9 DEF Next

(* The page that split_leaf reads after unpinning it is still in its       *)
(* frame, whatever else earlier failures have left pinned, as long as the  *)
(* pool has another frame for the page fetched in between: "pointer valid  *)
(* until unpin" is broken by the caller, and nothing comes of it.          *)
THEOREM PeekedPageIsSafe == Spec => []PeekedPageStays
<1>1. IInv /\ PeekedIsNewest /\ [Next]_vars => PeekedIsNewest'
  BY PeekNext
<1>2. PeekedIsNewest => PeekedPageStays
  BY DEF PeekedIsNewest, PeekedPageStays, Cached
<1> QED
  BY PeekInit, <1>1, <1>2, PoolInvariant, PTL DEF Spec

-----------------------------------------------------------------------------
(* Refinement: callers see a page store.                                   *)

(* What the pool fr over the files d shows of page p: its content, what    *)
(* the next pool will find, and its pins.                                  *)
HoldingIn(fr, p) == {f \in Frames : fr[f].page = p}
ContentIn(fr, d, p) ==
    IF HoldingIn(fr, p) # {} THEN fr[CHOOSE f \in HoldingIn(fr, p) : TRUE].data ELSE d[p]
PinsIn(fr, p) ==
    IF HoldingIn(fr, p) # {} THEN fr[CHOOSE f \in HoldingIn(fr, p) : TRUE].pin_count ELSE 0
DirtyOf(fr) == {f \in Frames : fr[f].page # NoPage /\ fr[f].dirty}
KeptIn(fr, d, p) ==
    IF \E f \in DirtyOf(fr) : fr[f].page = p
    THEN fr[CHOOSE f \in DirtyOf(fr) : fr[f].page = p].data ELSE d[p]

(* No two frames of fr hold page p.                                        *)
Alone(fr, p) == \A f, g \in Frames : fr[f].page = p /\ fr[g].page = p => f = g

ShowsFrame(fr, d, p, f) ==
    /\ ContentIn(fr, d, p) = fr[f].data
    /\ PinsIn(fr, p) = fr[f].pin_count
    /\ KeptIn(fr, d, p) = IF fr[f].dirty THEN fr[f].data ELSE d[p]

ShowsFile(fr, d, p) ==
    ContentIn(fr, d, p) = d[p] /\ PinsIn(fr, p) = 0 /\ KeptIn(fr, d, p) = d[p]

(* A page in one frame is seen as that frame has it.                       *)
LEMMA FrameShown ==
    ASSUME NEW fr, NEW d, NEW p \in Pages, Alone(fr, p), NEW f \in Frames, fr[f].page = p
    PROVE  ShowsFrame(fr, d, p, f)
<1>1. f \in HoldingIn(fr, p) /\ \A g \in HoldingIn(fr, p) : g = f
  BY DEF HoldingIn, Alone
<1>2. (CHOOSE g \in HoldingIn(fr, p) : TRUE) = f
  BY <1>1
<1>3. ContentIn(fr, d, p) = fr[f].data /\ PinsIn(fr, p) = fr[f].pin_count
  BY <1>1, <1>2 DEF ContentIn, PinsIn
<1>4. \A g \in DirtyOf(fr) : fr[g].page = p => g = f
  BY DEF DirtyOf, Alone
<1>5. CASE fr[f].dirty
  <2>1. f \in DirtyOf(fr)
    BY <1>5, PoolAssumption DEF DirtyOf
  <2>2. (CHOOSE g \in DirtyOf(fr) : fr[g].page = p) = f
    BY <1>4, <2>1
  <2>3. KeptIn(fr, d, p) = fr[f].data
    BY <2>1, <2>2 DEF KeptIn
  <2> QED
    BY <1>3, <1>5, <2>3 DEF ShowsFrame
<1>6. CASE ~fr[f].dirty
  <2>1. ~\E g \in DirtyOf(fr) : fr[g].page = p
    BY <1>4, <1>6 DEF DirtyOf
  <2>2. KeptIn(fr, d, p) = d[p]
    BY <2>1 DEF KeptIn
  <2> QED
    BY <1>3, <1>6, <2>2 DEF ShowsFrame
<1> QED
  BY <1>5, <1>6

(* A page in no frame is seen as its file has it.                          *)
LEMMA FileShown ==
    ASSUME NEW fr, NEW d, NEW p \in Pages, \A f \in Frames : fr[f].page # p
    PROVE  ShowsFile(fr, d, p)
BY DEF ShowsFile, ContentIn, PinsIn, KeptIn, HoldingIn, DirtyOf

(* The frames and files of this state, and of the next one.                *)
LEMMA ShownNow ==
    \A p \in Pages : /\ Content(p) = ContentIn(frames, disk, p)
                     /\ Pins(p) = PinsIn(frames, p)
                     /\ Flushed(Frames)[p] = KeptIn(frames, disk, p)
BY DEF Content, Pins, Cached, Holding, Flushed, DirtyIn,
       ContentIn, PinsIn, KeptIn, HoldingIn, DirtyOf

LEMMA ShownNext ==
    \A p \in Pages : /\ Content(p)' = ContentIn(frames', disk', p)
                     /\ Pins(p)' = PinsIn(frames', p)
                     /\ Flushed(Frames)'[p] = KeptIn(frames', disk', p)
BY DEF Content, Pins, Cached, Holding, Flushed, DirtyIn,
       ContentIn, PinsIn, KeptIn, HoldingIn, DirtyOf

(* What is seen of a page does not change.                                 *)
SameView(p) ==
    /\ ContentIn(frames', disk', p) = ContentIn(frames, disk, p)
    /\ PinsIn(frames', p) = PinsIn(frames, p)
    /\ KeptIn(frames', disk', p) = KeptIn(frames, disk, p)

LEMMA AlonePages ==
    ASSUME PageInOneFrame, NEW p \in Pages
    PROVE  Alone(frames, p)
BY PoolAssumption DEF PageInOneFrame, Alone

LEMMA AlonePagesNext ==
    ASSUME PageInOneFrame', NEW p \in Pages
    PROVE  Alone(frames', p)
BY PoolAssumption DEF PageInOneFrame, Alone

(* A page whose frame is left alone, by a step that leaves its file alone, *)
(* is seen as before.                                                      *)
LEMMA SameFrameSameView ==
    ASSUME PageInOneFrame, PageInOneFrame', NEW p \in Pages, NEW f \in Frames,
           frames[f].page = p, frames'[f] = frames[f], disk'[p] = disk[p]
    PROVE  SameView(p)
<1>1. ShowsFrame(frames, disk, p, f)
  BY AlonePages, FrameShown
<1>2. ShowsFrame(frames', disk', p, f)
  BY AlonePagesNext, FrameShown
<1> QED
  BY <1>1, <1>2 DEF ShowsFrame, SameView

LEMMA SameFileSameView ==
    ASSUME NEW p \in Pages, \A f \in Frames : frames[f].page # p /\ frames'[f].page # p,
           disk'[p] = disk[p]
    PROVE  SameView(p)
<1>1. ShowsFile(frames, disk, p) /\ ShowsFile(frames', disk', p)
  BY FileShown
<1> QED
  BY <1>1 DEF ShowsFile, SameView

(* A step on one frame that keeps its page, and on no file, changes what   *)
(* is seen of no other page.                                               *)
LEMMA OtherViews ==
    ASSUME PageInOneFrame, PageInOneFrame', NEW f \in Frames,
           \A g \in Frames \ {f} : frames'[g] = frames[g],
           frames'[f].page = frames[f].page, disk' = disk,
           NEW q \in Pages, frames[f].page # q
    PROVE  SameView(q)
<1>1. CASE \E g \in Frames : frames[g].page = q
  <2>1. PICK g \in Frames : frames[g].page = q
    BY <1>1
  <2>2. frames'[g] = frames[g]
    BY <2>1
  <2> QED
    BY <2>1, <2>2, SameFrameSameView
<1>2. CASE \A g \in Frames : frames[g].page # q
  <2>1. \A g \in Frames : frames'[g].page # q
    BY <1>2
  <2> QED
    BY <1>2, <2>1, SameFileSameView
<1> QED
  BY <1>1, <1>2

(* An eviction that gives the frame to no page that was cached before is   *)
(* seen by no caller: what was dirty is on disk, and what was not is       *)
(* there already.                                                          *)
LEMMA EvictionIsUnseen ==
    ASSUME IInv, PageInOneFrame', NEW f \in Frames, Usable(f), disk' = Flushed({f}),
           \A g \in Frames \ {f} : frames'[g] = frames[g],
           NEW q \in Pages, frames'[f].page # q
    PROVE  SameView(q)
<1>0. TypeOK /\ PageInOneFrame /\ NoPage \notin Pages
  BY PoolAssumption DEF IInv
<1>1. CASE \E g \in Frames \ {f} : frames[g].page = q
  <2>1. PICK g \in Frames \ {f} : frames[g].page = q
    BY <1>1
  <2>2. frames[f].page # q /\ frames'[g] = frames[g]
    BY <2>1, <1>0 DEF PageInOneFrame
  <2>3. disk'[q] = disk[q]
    BY <1>0, <2>2, FlushedOne
  <2> QED
    BY <1>0, <2>1, <2>2, <2>3, SameFrameSameView
<1>2. CASE frames[f].page = q
  <2>1. frames[f].pin_count = 0
    BY <1>0, <1>2, UsableFrame
  <2>2. q \notin touched
    <3>1. \A g \in Frames : frames[g].page = q => g = f
      BY <1>0, <1>2 DEF PageInOneFrame
    <3> QED
      BY <2>1, <3>1 DEF IInv, TouchedIsPinned, Holding
  <2>3. ShowsFrame(frames, disk, q, f)
    BY <1>0, <1>2, AlonePages, FrameShown
  <2>4. ShowsFile(frames', disk', q)
    <3>1. \A g \in Frames : frames'[g].page # q
      BY <1>0, <1>2 DEF PageInOneFrame
    <3> QED
      BY <3>1, FileShown
  <2>5. disk'[q] = frames[f].data
    <3>1. CASE frames[f].dirty
      BY <1>0, <1>2, <3>1, FlushedOne
    <3>2. CASE ~frames[f].dirty
      <4>1. frames[f].data = disk[q]
        BY <1>0, <1>2, <2>2, <3>2 DEF IInv, CleanFrameMatchesDisk
      <4>2. disk'[q] = disk[q]
        BY <1>0, <3>2, FlushedOne
      <4> QED
        BY <4>1, <4>2
    <3> QED
      BY <3>1, <3>2
  <2>6. ~frames[f].dirty => frames[f].data = disk[q]
    BY <1>0, <1>2, <2>2 DEF IInv, CleanFrameMatchesDisk
  <2> QED
    BY <2>1, <2>3, <2>4, <2>5, <2>6 DEF ShowsFrame, ShowsFile, SameView
<1>3. CASE \A g \in Frames : frames[g].page # q
  <2>1. \A g \in Frames : frames'[g].page # q
    BY <1>3
  <2>2. disk'[q] = disk[q]
    BY <1>0, <1>3, FlushedOne
  <2> QED
    BY <1>3, <2>1, <2>2, SameFileSameView
<1> QED
  BY <1>1, <1>2, <1>3

-----------------------------------------------------------------------------
(* The step of the page store that each action of the pool is.             *)
content == [p \in Pages |-> Content(p)]
pins == [p \in Pages |-> Pins(p)]

AllSame == content' = content /\ pins' = pins /\ Flushed(Frames)' = Flushed(Frames)

LEMMA FlushedFun == Flushed(Frames) = [p \in Pages |-> Flushed(Frames)[p]]
BY DEF Flushed

LEMMA FlushedFunNext == Flushed(Frames)' = [p \in Pages |-> Flushed(Frames)'[p]]
BY DEF Flushed

LEMMA SameViewsAllSame ==
    ASSUME \A q \in Pages : SameView(q)
    PROVE  AllSame
<1>1. \A q \in Pages : Content(q)' = Content(q) /\ Pins(q)' = Pins(q)
  BY ShownNow, ShownNext DEF SameView
<1>2. \A q \in Pages : Flushed(Frames)'[q] = Flushed(Frames)[q]
  BY ShownNow, ShownNext DEF SameView
<1>3. content' = content /\ pins' = pins
  BY <1>1 DEF content, pins
<1>4. Flushed(Frames)' = Flushed(Frames)
  BY <1>2, FlushedFun, FlushedFunNext
<1> QED
  BY <1>3, <1>4 DEF AllSame

(* A step that changes what is seen of page p alone.                       *)
LEMMA OneViewChanges ==
    ASSUME NEW p \in Pages, \A q \in Pages \ {p} : SameView(q)
    PROVE  /\ content' = [content EXCEPT ![p] = Content(p)']
           /\ pins' = [pins EXCEPT ![p] = Pins(p)']
           /\ Flushed(Frames)' = [Flushed(Frames) EXCEPT ![p] = Flushed(Frames)'[p]]
<1>1. \A q \in Pages \ {p} : Content(q)' = Content(q) /\ Pins(q)' = Pins(q)
  BY ShownNow, ShownNext DEF SameView
<1>2. \A q \in Pages \ {p} : Flushed(Frames)'[q] = Flushed(Frames)[q]
  BY ShownNow, ShownNext DEF SameView
<1>3. content' = [content EXCEPT ![p] = Content(p)'] /\ pins' = [pins EXCEPT ![p] = Pins(p)']
  BY <1>1 DEF content, pins
<1>4. Flushed(Frames)' = [Flushed(Frames) EXCEPT ![p] = Flushed(Frames)'[p]]
  BY <1>2, FlushedFun, FlushedFunNext
<1> QED
  BY <1>3, <1>4

(* A step on the frame of page p, which goes on holding it.                *)
HeldStep(p, f) ==
    /\ content[p] = frames[f].data
    /\ pins[p] = frames[f].pin_count
    /\ Flushed(Frames)[p] = IF frames[f].dirty THEN frames[f].data ELSE disk[p]
    /\ content' = [content EXCEPT ![p] = frames'[f].data]
    /\ pins' = [pins EXCEPT ![p] = frames'[f].pin_count]
    /\ Flushed(Frames)' = [Flushed(Frames) EXCEPT ![p] =
                              IF frames'[f].dirty THEN frames'[f].data ELSE disk[p]]

LEMMA HeldSteps ==
    ASSUME IInv, IInv', NEW p \in Pages, NEW f \in Frames, frames[f].page = p,
           frames'[f].page = p, \A g \in Frames \ {f} : frames'[g] = frames[g], disk' = disk
    PROVE  HeldStep(p, f)
<1>0. PageInOneFrame /\ PageInOneFrame'
  BY DEF IInv
<1>1. \A q \in Pages \ {p} : SameView(q)
  BY <1>0, OtherViews
<1>2. ShowsFrame(frames, disk, p, f)
  BY <1>0, AlonePages, FrameShown
<1>3. ShowsFrame(frames', disk', p, f)
  BY <1>0, AlonePagesNext, FrameShown
<1>4. /\ content[p] = frames[f].data /\ pins[p] = frames[f].pin_count
      /\ Flushed(Frames)[p] = IF frames[f].dirty THEN frames[f].data ELSE disk[p]
  BY <1>2, ShownNow DEF ShowsFrame, content, pins
<1>5. /\ Content(p)' = frames'[f].data /\ Pins(p)' = frames'[f].pin_count
      /\ Flushed(Frames)'[p] = IF frames'[f].dirty THEN frames'[f].data ELSE disk[p]
  BY <1>3, ShownNext DEF ShowsFrame
<1>6. /\ content' = [content EXCEPT ![p] = Content(p)']
      /\ pins' = [pins EXCEPT ![p] = Pins(p)']
      /\ Flushed(Frames)' = [Flushed(Frames) EXCEPT ![p] = Flushed(Frames)'[p]]
  BY <1>1, OneViewChanges
<1> QED
  BY <1>4, <1>5, <1>6 DEF HeldStep

LEMMA ViewFunctions ==
    /\ content = [p \in Pages |-> content[p]]
    /\ pins = [p \in Pages |-> pins[p]]
    /\ Flushed(Frames) = [p \in Pages |-> Flushed(Frames)[p]]
BY FlushedFun DEF content, pins

LEMMA FetchHitRefines ==
    ASSUME IInv, IInv', NEW p \in Pages, FetchHit(p)
    PROVE  Store!Pin(p)
<1>1. PICK f \in Frames :
         /\ frames[f].page = p
         /\ frames' = [frames EXCEPT ![f].pin_count = @ + 1,
                                     ![f].last_used = access_counter + 1]
  BY DEF FetchHit, Holding
<1>2. TypeOK /\ disk' = disk /\ touched' = touched
  BY DEF IInv, FetchHit
<1>3. /\ frames'[f].page = p /\ frames'[f].data = frames[f].data
      /\ frames'[f].dirty = frames[f].dirty
      /\ frames'[f].pin_count = frames[f].pin_count + 1
      /\ \A g \in Frames \ {f} : frames'[g] = frames[g]
  BY <1>1, <1>2 DEF TypeOK, Frame
<1>4. HeldStep(p, f)
  BY <1>1, <1>2, <1>3, HeldSteps
<1>5. content' = content /\ Flushed(Frames)' = Flushed(Frames)
  BY <1>3, <1>4, ViewFunctions DEF HeldStep
<1>6. pins' = [pins EXCEPT ![p] = pins[p] + 1]
  BY <1>3, <1>4 DEF HeldStep
<1> QED
  BY <1>2, <1>5, <1>6 DEF Store!Pin, content, pins

LEMMA FetchMissRefines ==
    ASSUME IInv, IInv', NEW p \in Pages, FetchMiss(p)
    PROVE  Store!Pin(p)
<1>0. TypeOK /\ PageInOneFrame /\ PageInOneFrame' /\ touched' = touched
  BY DEF IInv, FetchMiss
<1>1. PICK f \in Frames :
         /\ Usable(f) /\ disk' = Flushed({f})
         /\ frames' = [frames EXCEPT ![f] =
               [page |-> p, pin_count |-> 1, dirty |-> FALSE,
                last_used |-> access_counter + 1, data |-> disk[p]]]
  BY DEF FetchMiss
<1>2. /\ frames'[f].page = p /\ frames'[f].data = disk[p] /\ frames'[f].pin_count = 1
      /\ ~frames'[f].dirty /\ \A g \in Frames \ {f} : frames'[g] = frames[g]
  BY <1>0, <1>1 DEF TypeOK
<1>3. \A q \in Pages \ {p} : SameView(q)
  BY <1>0, <1>1, <1>2, EvictionIsUnseen
<1>4. ShowsFile(frames, disk, p)
  <2>1. \A g \in Frames : frames[g].page # p
    BY DEF FetchMiss, Cached, Holding
  <2> QED
    BY <2>1, FileShown
<1>5. ShowsFrame(frames', disk', p, f)
  BY <1>0, <1>2, AlonePagesNext, FrameShown
<1>6. disk'[p] = disk[p]
  <2>1. \A g \in Frames : frames[g].page # p
    BY DEF FetchMiss, Cached, Holding
  <2> QED
    BY <1>0, <1>1, <2>1, FlushedOne
<1>7. /\ Content(p) = disk[p] /\ Pins(p) = 0 /\ Flushed(Frames)[p] = disk[p]
      /\ Content(p)' = disk[p] /\ Pins(p)' = 1 /\ Flushed(Frames)'[p] = disk[p]
  BY <1>2, <1>4, <1>5, <1>6, ShownNow, ShownNext DEF ShowsFile, ShowsFrame
<1>8. /\ content' = [content EXCEPT ![p] = Content(p)']
      /\ pins' = [pins EXCEPT ![p] = Pins(p)']
      /\ Flushed(Frames)' = [Flushed(Frames) EXCEPT ![p] = Flushed(Frames)'[p]]
  BY <1>3, OneViewChanges
<1>9. content[p] = Content(p) /\ pins[p] = Pins(p)
  BY DEF content, pins
<1>10. content' = content /\ Flushed(Frames)' = Flushed(Frames)
  BY <1>7, <1>8, <1>9, ViewFunctions
<1>11. pins' = [pins EXCEPT ![p] = pins[p] + 1]
  BY <1>7, <1>8, <1>9
<1> QED
  BY <1>0, <1>10, <1>11 DEF Store!Pin, content, pins

LEMMA FetchReadErrorRefines ==
    ASSUME IInv, IInv', NEW p \in Pages, FetchReadError(p)
    PROVE  AllSame
<1>0. TypeOK /\ PageInOneFrame' /\ NoPage \notin Pages
  BY PoolAssumption DEF IInv
<1>1. PICK f \in Frames, junk \in Values :
         /\ Usable(f) /\ disk' = Flushed({f})
         /\ frames' = [frames EXCEPT ![f] =
               [page |-> NoPage, pin_count |-> 0, dirty |-> FALSE,
                last_used |-> frames[f].last_used, data |-> junk]]
  BY DEF FetchReadError
<1>2. frames'[f].page = NoPage /\ \A g \in Frames \ {f} : frames'[g] = frames[g]
  BY <1>0, <1>1 DEF TypeOK
<1>3. \A q \in Pages : SameView(q)
  BY <1>0, <1>1, <1>2, EvictionIsUnseen
<1> QED
  BY <1>3, SameViewsAllSame

LEMMA WritePageRefines ==
    ASSUME IInv, IInv', NEW p \in Pages, NEW v \in Values, WritePage(p, v)
    PROVE  Store!Write(p, v)
<1>1. PICK f \in Frames : /\ frames[f].page = p /\ frames[f].pin_count > 0
                          /\ frames' = [frames EXCEPT ![f].data = v]
  BY DEF WritePage, Holding
<1>2. TypeOK /\ disk' = disk /\ touched' = touched \union {p}
  BY DEF IInv, WritePage
<1>3. /\ frames'[f].page = p /\ frames'[f].data = v
      /\ frames'[f].dirty = frames[f].dirty
      /\ frames'[f].pin_count = frames[f].pin_count
      /\ \A g \in Frames \ {f} : frames'[g] = frames[g]
  BY <1>1, <1>2 DEF TypeOK, Frame
<1>4. HeldStep(p, f)
  BY <1>1, <1>2, <1>3, HeldSteps
<1>5. pins' = pins /\ pins[p] > 0
  BY <1>1, <1>3, <1>4, ViewFunctions DEF HeldStep
<1>6. content' = [content EXCEPT ![p] = v]
  BY <1>3, <1>4 DEF HeldStep
<1>7. Flushed(Frames)' \in {Flushed(Frames), [Flushed(Frames) EXCEPT ![p] = v]}
  <2>1. CASE frames[f].dirty
    BY <1>3, <1>4, <2>1 DEF HeldStep
  <2>2. CASE ~frames[f].dirty
    <3>1. /\ Flushed(Frames)' = [Flushed(Frames) EXCEPT ![p] = disk[p]]
          /\ Flushed(Frames)[p] = disk[p]
      BY <1>3, <1>4, <2>2 DEF HeldStep
    <3>2. Flushed(Frames)' = Flushed(Frames)
      BY ONLY <3>1, ViewFunctions
    <3> QED
      BY <3>2
  <2> QED
    BY <2>1, <2>2
<1> QED
  BY <1>2, <1>5, <1>6, <1>7 DEF Store!Write, content, pins

LEMMA MarkDirtyRefines ==
    ASSUME IInv, IInv', NEW p \in Pages, MarkDirty(p)
    PROVE  Store!Mark(p)
<1>1. PICK f \in Frames : frames[f].page = p /\ frames' = [frames EXCEPT ![f].dirty = TRUE]
  BY DEF MarkDirty, Holding
<1>2. TypeOK /\ disk' = disk /\ touched' = touched \ {p}
  BY DEF IInv, MarkDirty
<1>3. /\ frames'[f].page = p /\ frames'[f].data = frames[f].data
      /\ frames'[f].dirty /\ frames'[f].pin_count = frames[f].pin_count
      /\ \A g \in Frames \ {f} : frames'[g] = frames[g]
  BY <1>1, <1>2 DEF TypeOK, Frame
<1>4. HeldStep(p, f)
  BY <1>1, <1>2, <1>3, HeldSteps
<1>5. pins' = pins /\ content' = content
  BY <1>3, <1>4, ViewFunctions DEF HeldStep
<1>6. Flushed(Frames)' = [Flushed(Frames) EXCEPT ![p] = content[p]]
  BY <1>3, <1>4 DEF HeldStep
<1> QED
  BY <1>2, <1>5, <1>6 DEF Store!Mark, content, pins

LEMMA UnpinRefines ==
    ASSUME IInv, IInv', NEW p \in Pages, Unpin(p)
    PROVE  Store!Unpin(p)
<1>1. PICK f \in Frames : /\ frames[f].page = p
                          /\ frames[f].pin_count > IF p \in touched THEN 1 ELSE 0
                          /\ frames' = [frames EXCEPT ![f].pin_count = @ - 1]
  BY DEF Unpin, Holding
<1>2. TypeOK /\ disk' = disk /\ touched' = touched
  BY DEF IInv, Unpin
<1>3. /\ frames'[f].page = p /\ frames'[f].data = frames[f].data
      /\ frames'[f].dirty = frames[f].dirty
      /\ frames'[f].pin_count = frames[f].pin_count - 1
      /\ \A g \in Frames \ {f} : frames'[g] = frames[g]
  BY <1>1, <1>2 DEF TypeOK, Frame
<1>4. HeldStep(p, f)
  BY <1>1, <1>2, <1>3, HeldSteps
<1>5. content' = content /\ Flushed(Frames)' = Flushed(Frames)
  BY <1>3, <1>4, ViewFunctions DEF HeldStep
<1>6. /\ pins' = [pins EXCEPT ![p] = pins[p] - 1]
      /\ pins[p] > IF p \in touched THEN 1 ELSE 0
  BY <1>1, <1>3, <1>4 DEF HeldStep
<1> QED
  BY <1>2, <1>5, <1>6 DEF Store!Unpin, content, pins

LEMMA ReplaceRefines ==
    ASSUME IInv, Replace
    PROVE  Store!Renew
<1>1. disk' = Flushed(Frames) /\ frames' = [f \in Frames |-> NewFrame] /\ touched' = {}
  BY DEF Replace
<1>2. \A f \in Frames, q \in Pages : frames'[f].page # q
  BY <1>1, PoolAssumption DEF NewFrame
<1>3. \A q \in Pages : ShowsFile(frames', disk', q)
  BY <1>2, FileShown
<1>4. \A q \in Pages : /\ Content(q)' = Flushed(Frames)[q] /\ Pins(q)' = 0
                       /\ Flushed(Frames)'[q] = Flushed(Frames)[q]
  BY <1>1, <1>3, ShownNext DEF ShowsFile
<1>5. content' = Flushed(Frames)
  BY <1>4, FlushedFun DEF content
<1>6. pins' = [q \in Pages |-> 0]
  BY <1>4 DEF pins
<1>7. Flushed(Frames)' = Flushed(Frames)
  BY <1>4, FlushedFun, FlushedFunNext
<1> QED
  BY <1>1, <1>5, <1>6, <1>7 DEF Store!Renew, content, pins

LEMMA InitRefines ==
    ASSUME Init
    PROVE  Store!Init
<1>1. IInv
  BY InitInv
<1>2. \A f \in Frames, q \in Pages : frames[f].page # q
  BY PoolAssumption DEF Init, NewFrame
<1>3. \A q \in Pages : ShowsFile(frames, disk, q)
  BY <1>2, FileShown
<1>4. \A q \in Pages : /\ Content(q) = disk[q] /\ Pins(q) = 0
                       /\ Flushed(Frames)[q] = disk[q]
  BY <1>3, ShownNow DEF ShowsFile
<1>5. disk \in [Pages -> Values]
  BY DEF Init
<1>6. content = disk /\ Flushed(Frames) = disk
  BY <1>4, <1>5, FlushedFun DEF content
<1>7. pins = [q \in Pages |-> 0]
  BY <1>4 DEF pins
<1> QED
  BY <1>5, <1>6, <1>7 DEF Store!Init, Init, content, pins

(* A step of the pool is a step of the page store, or changes nothing of   *)
(* it.                                                                     *)
LEMMA StepRefines ==
    ASSUME IInv, IInv', [Next]_vars
    PROVE  [Store!Next]_(Store!vars)
<1> DEFINE Same == AllSame /\ touched' = touched
<1>a. Same => UNCHANGED Store!vars
  BY DEF AllSame, Store!vars, content, pins
<1>1. CASE UNCHANGED vars
  <2>1. content' = content /\ pins' = pins /\ Flushed(Frames)' = Flushed(Frames)
    BY <1>1 DEF vars, content, pins, Content, Pins, Cached, Holding, Flushed, DirtyIn
  <2> QED
    BY <1>1, <1>a, <2>1 DEF AllSame, vars
<1>2. ASSUME NEW p \in Pages, FetchHit(p) PROVE Store!Next
  BY <1>2, FetchHitRefines DEF Store!Next
<1>3. ASSUME NEW p \in Pages, FetchMiss(p) PROVE Store!Next
  BY <1>3, FetchMissRefines DEF Store!Next
<1>4. ASSUME NEW p \in Pages, FetchReadError(p) PROVE UNCHANGED Store!vars
  BY <1>4, <1>a, FetchReadErrorRefines DEF FetchReadError
<1>5. ASSUME NEW p \in Pages, FetchNoFrame(p) PROVE UNCHANGED Store!vars
  <2>1. content' = content /\ pins' = pins /\ Flushed(Frames)' = Flushed(Frames)
    BY <1>5 DEF FetchNoFrame, content, pins, Content, Pins, Cached, Holding, Flushed, DirtyIn
  <2> QED
    BY <1>5, <1>a, <2>1 DEF AllSame, FetchNoFrame
<1>6. ASSUME NEW p \in Pages, MarkDirty(p) PROVE Store!Next
  BY <1>6, MarkDirtyRefines DEF Store!Next
<1>7. ASSUME NEW p \in Pages, Unpin(p) PROVE Store!Next
  BY <1>7, UnpinRefines DEF Store!Next
<1>8. ASSUME NEW p \in Pages, NEW v \in Values, WritePage(p, v) PROVE Store!Next
  BY <1>8, WritePageRefines DEF Store!Next
<1>9. CASE Replace
  BY <1>9, ReplaceRefines DEF Store!Next
<1> QED
  BY <1>1, <1>2, <1>3, <1>4, <1>5, <1>6, <1>7, <1>8, <1>9 DEF Next

(* Whatever is fetched, evicted, flushed or replaced, callers see one page *)
(* store: a page changes by the writes of callers that have it pinned and  *)
(* by nothing else, and what was marked outlives the pool.                 *)
THEOREM PoolImplementsPageStore == Spec => ImplementsPageStore
<1>1. Init => Store!Init
  BY InitRefines
<1>2. IInv /\ IInv' /\ [Next]_vars => [Store!Next]_(Store!vars)
  BY StepRefines
<1> QED
  BY <1>1, <1>2, PoolInvariant, PTL DEF Spec, ImplementsPageStore, Store!Spec
=============================================================================
