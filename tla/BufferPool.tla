-------------------------------- MODULE BufferPool --------------------------------
(***************************************************************************)
(* BufferPoolManager (src/storage/bufferpool_manager.cpp): a fixed number  *)
(* of frames over the table files, with pins, dirty flags and LRU          *)
(* eviction, together with the discipline of its callers (BPlusTree and    *)
(* next_row_from): a page is written through the pointer while it is       *)
(* pinned, and marked dirty before it is unpinned.  A fetch that throws in *)
(* mid operation leaves pins behind, and in split_leaf also pages that are *)
(* written and not marked.                                                 *)
(*                                                                         *)
(* split_leaf breaks the rule of the header ("pointer valid until unpin"): *)
(* it reads the first key of the new leaf after unpinning it, while it     *)
(* fetches the parent.  peek is the page read that way.                    *)
(*                                                                         *)
(* A definition that no action uses and that stands just before another    *)
(* one is a mutant of it: a plausible mistake that some property catches.  *)
(***************************************************************************)
EXTENDS Naturals, FiniteSets

CONSTANTS
    Pages,       \* <<table_id, page_id>> with page_id >= 2
    NoPage,      \* the key of a free frame (INVALID_TABLE_ID)
    Values,      \* contents of a page
    NumFrames,   \* num_frames
    MaxAccess    \* bound: fetches

ASSUME PoolAssumption ==
    /\ NoPage \notin Pages
    /\ NumFrames \in Nat \ {0}
    /\ MaxAccess \in Nat
    /\ Values # {}

VARIABLES
    frames,          \* frames_
    access_counter,  \* access_counter_
    disk,            \* the contents in the table files
    touched,         \* pages written through a pointer, not yet marked dirty
    peek             \* the page read after its unpin, or NoPage

vars == <<frames, access_counter, disk, touched, peek>>

Frames == 1..NumFrames
Frame == [page : Pages \union {NoPage}, pin_count : Nat, dirty : BOOLEAN,
          last_used : Nat, data : Values]

Blank == CHOOSE v \in Values : TRUE
NewFrame == [page |-> NoPage, pin_count |-> 0, dirty |-> FALSE,
             last_used |-> 0, data |-> Blank]

Init ==
    /\ frames = [f \in Frames |-> NewFrame]
    /\ access_counter = 0
    /\ disk \in [Pages -> Values]
    /\ touched = {}
    /\ peek = NoPage

-----------------------------------------------------------------------------
Holding(p) == {f \in Frames : frames[f].page = p}
CachedIfPinned(p) == \E f \in Holding(p) : frames[f].pin_count > 0
Cached(p) == Holding(p) # {}
Free == Holding(NoPage)
Unpinned == {f \in Frames : frames[f].pin_count = 0}

(* evict_and_use: the first free frame, else the unpinned frame that was   *)
(* used longest ago.                                                       *)
NewerOrFirst(f, g) ==
    \/ frames[f].last_used > frames[g].last_used
    \/ frames[f].last_used = frames[g].last_used /\ f <= g
OlderOrFirst(f, g) ==
    \/ frames[f].last_used < frames[g].last_used
    \/ frames[f].last_used = frames[g].last_used /\ f <= g
Usable(f) ==
    IF Free # {} THEN f \in Free /\ \A g \in Free : f <= g
    ELSE f \in Unpinned /\ \A g \in Unpinned : OlderOrFirst(f, g)

(* flush_frame, of the frames in F.                                        *)
DirtyIn(F) == {f \in F : frames[f].page # NoPage /\ frames[f].dirty}
Flushed(F) ==
    [p \in Pages |-> IF \E f \in DirtyIn(F) : frames[f].page = p
                     THEN frames[CHOOSE f \in DirtyIn(F) : frames[f].page = p].data
                     ELSE disk[p]]

(* A caller that reads a page behind its unpin fetches another page, while *)
(* the pool has a frame besides that one to give away.                     *)
MayFetch(p) == peek # NoPage => p # peek /\ \E f \in Unpinned : frames[f].page # peek

FetchHit(p) ==
    /\ access_counter < MaxAccess /\ MayFetch(p)
    /\ \E f \in Holding(p) :
          frames' = [frames EXCEPT ![f].pin_count = @ + 1,
                                   ![f].last_used = access_counter + 1]
    /\ access_counter' = access_counter + 1
    /\ UNCHANGED <<disk, touched, peek>>

FetchMissUnflushed(p) ==
    /\ access_counter < MaxAccess /\ MayFetch(p)
    /\ ~Cached(p)
    /\ \E f \in Frames :
          /\ Usable(f)
          /\ frames' = [frames EXCEPT ![f] =
                [page |-> p, pin_count |-> 1, dirty |-> FALSE,
                 last_used |-> access_counter + 1, data |-> disk[p]]]
    /\ access_counter' = access_counter + 1
    /\ UNCHANGED <<disk, touched, peek>>

FetchMiss(p) ==
    /\ access_counter < MaxAccess /\ MayFetch(p)
    /\ ~Cached(p)
    /\ \E f \in Frames :
          /\ Usable(f)
          /\ disk' = Flushed({f})
          /\ frames' = [frames EXCEPT ![f] =
                [page |-> p, pin_count |-> 1, dirty |-> FALSE,
                 last_used |-> access_counter + 1, data |-> disk[p]]]
    /\ access_counter' = access_counter + 1
    /\ UNCHANGED <<touched, peek>>

(* read_page throws: the victim is gone already.                           *)
FetchReadError(p) ==
    /\ access_counter < MaxAccess /\ MayFetch(p)
    /\ ~Cached(p)
    /\ \E f \in Frames :
          /\ Usable(f)
          /\ disk' = Flushed({f})
          /\ \E junk \in Values :
                frames' = [frames EXCEPT ![f] =
                    [page |-> NoPage, pin_count |-> 0, dirty |-> FALSE,
                     last_used |-> @.last_used, data |-> junk]]
    /\ access_counter' = access_counter + 1
    /\ peek' = NoPage
    /\ UNCHANGED touched

(* Every frame is pinned: evict_and_use throws.                            *)
FetchNoFrame(p) ==
    /\ access_counter < MaxAccess /\ MayFetch(p)
    /\ ~Cached(p) /\ Free = {} /\ Unpinned = {}
    /\ access_counter' = access_counter + 1
    /\ UNCHANGED <<frames, disk, touched, peek>>

(* A caller writes through the pointer of a page it has pinned.            *)
WritePage(p, v) ==
    /\ \E f \in Holding(p) :
          /\ frames[f].pin_count > 0
          /\ frames' = [frames EXCEPT ![f].data = v]
    /\ touched' = touched \union {p}
    /\ UNCHANGED <<access_counter, disk, peek>>

MarkDirtyForgotten(p) ==
    /\ Cached(p)
    /\ touched' = touched \ {p}
    /\ UNCHANGED <<frames, access_counter, disk, peek>>

MarkDirty(p) ==
    /\ \E f \in Holding(p) : frames' = [frames EXCEPT ![f].dirty = TRUE]
    /\ touched' = touched \ {p}
    /\ UNCHANGED <<access_counter, disk, peek>>

UnpinUnchecked(p) ==
    /\ \E f \in Holding(p) : frames' = [frames EXCEPT ![f].pin_count = @ - 1]
    /\ peek' = NoPage
    /\ UNCHANGED <<access_counter, disk, touched>>

(* The pin under which a page was written stays until the page is marked:  *)
(* a caller whose operation was cut short by a failing fetch never gives   *)
(* it back.  The caller may go on reading a page it has just fetched and   *)
(* unpinned, as split_leaf does.                                           *)
Unpin(p) ==
    /\ \E f \in Holding(p) :
          /\ frames[f].pin_count > IF p \in touched THEN 1 ELSE 0
          /\ frames' = [frames EXCEPT ![f].pin_count = @ - 1]
          /\ \/ peek' = NoPage
             \/ /\ peek = NoPage
                /\ frames[f].pin_count = 1 /\ frames[f].last_used = access_counter
                /\ peek' = p
    /\ UNCHANGED <<access_counter, disk, touched>>

(* The destructor flushes the frames that are marked; the next Storage     *)
(* starts with an empty pool.  A write that was never marked, because a    *)
(* fetch threw first, goes with the frame.  (What becomes of the pool when *)
(* Storage's other members die first is not part of this module.)          *)
Replace ==
    /\ disk' = Flushed(Frames)
    /\ frames' = [f \in Frames |-> NewFrame]
    /\ access_counter' = 0
    /\ touched' = {}
    /\ peek' = NoPage

Next ==
    \/ \E p \in Pages :
          \/ FetchHit(p) \/ FetchMiss(p) \/ FetchReadError(p) \/ FetchNoFrame(p)
          \/ MarkDirty(p) \/ Unpin(p)
          \/ \E v \in Values : WritePage(p, v)
    \/ Replace

Spec == Init /\ [][Next]_vars

-----------------------------------------------------------------------------
TypeOK ==
    /\ frames \in [Frames -> Frame]
    /\ access_counter \in Nat
    /\ disk \in [Pages -> Values]
    /\ touched \subseteq Pages
    /\ peek \in Pages \union {NoPage}

(* A page is in at most one frame: otherwise a write through one frame     *)
(* would be invisible through, and undone by the flush of, the other.      *)
PageInOneFrame ==
    \A f, g \in Frames :
        frames[f].page = frames[g].page /\ frames[f].page # NoPage => f = g

(* A frame that may be dropped without being written is the image of the   *)
(* page on disk: no update is lost by an eviction.                         *)
CleanFrameMatchesDisk ==
    \A f \in Frames :
        frames[f].page # NoPage /\ ~frames[f].dirty /\ frames[f].page \notin touched
            => frames[f].data = disk[frames[f].page]

(* A page written to and not yet marked dirty is still pinned, so that the *)
(* update cannot be dropped before it is marked.                           *)
TouchedIsPinned ==
    \A p \in touched : \E f \in Holding(p) : frames[f].pin_count > 0

(* The page a caller still reads after unpinning it (bplustree.cpp:341 to  *)
(* 350 and 374) has not been evicted by the fetch in between.              *)
PeekedPageStays == peek # NoPage => Cached(peek)

(* Through the pool, the files and the pool's replacement callers see one  *)
(* page store: what they read of a page is what was last written to it by  *)
(* a caller that had it pinned, in that caller's own step, and what        *)
(* outlives the pool is all that was marked.  Fetches (hits, misses with   *)
(* their evictions, failures) and unpins change no content at all.         *)
Content(p) == IF Cached(p) THEN frames[CHOOSE f \in Holding(p) : TRUE].data ELSE disk[p]
Pins(p) == IF Cached(p) THEN frames[CHOOSE f \in Holding(p) : TRUE].pin_count ELSE 0
Store == INSTANCE PageStore
    WITH content <- [p \in Pages |-> Content(p)], kept <- Flushed(Frames),
         pins <- [p \in Pages |-> Pins(p)], unmarked <- touched
ImplementsPageStore == Store!Spec
=============================================================================
