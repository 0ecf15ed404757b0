------------------------------ MODULE WcmApList ------------------------------
(***************************************************************************)
(* The list of access points a search has found, libraries/wcm/src/aplist.c. *)
(*                                                                         *)
(* The application gives the buffer: a header and as many blocks as fit.    *)
(* The list is doubly linked through the blocks, oldest first, and every    *)
(* occupied block has an index by which the application asks for it.  The   *)
(* scan callback enters access points in interrupt context; the application *)
(* locks the list, reads what it points at, and restores the lock.          *)
(*                                                                         *)
(* Every function runs with interrupts off or in the interrupt: one action. *)
(* Blocks are numbered from 1; 0 is NULL, and cleared memory.               *)
(***************************************************************************)
EXTENDS Integers, Sequences

CONSTANTS
  Bssids, Levels,
  NoBssid,     \* the BSSID in a cleared block
  maxBlock,    \* blocks in the buffer
  MaxNest      \* bound: locks the application holds one inside the other

ApListConstants ==
  maxBlock \in Nat /\ NoBssid \notin Bssids /\ Levels \subseteq Nat /\ MaxNest \in Nat
ASSUME ApListAssumption == ApListConstants

VARIABLES
  buf,         \* pbdbuffer: header and blocks
  exchange,    \* config.nbdmode is WCM_APLIST_MODE_EXCHANGE
  apListLock,
  held,        \* the values WCM_LockApList gave and are yet to be restored
  bd,          \* the block the application points at
  snapshot     \* history: what was in that block when it took the pointer

readVars == <<held, bd, snapshot>>
apListVars == <<buf, exchange, apListLock, readVars>>

Blocks == 1 .. maxBlock
Links  == 0 .. maxBlock

Empty == [occupied |-> FALSE, index |-> 0, previous |-> 0, next |-> 0,
          bssid |-> NoBssid, level |-> 0]
Cleared == [count |-> 0, head |-> 0, tail |-> 0, block |-> [b \in Blocks |-> Empty]]

(* The n-th block of the list, or NULL behind its end.                       *)
Nth[n \in Nat] ==
  IF n = 0 THEN 0
  ELSE IF n = 1 THEN buf.head
  ELSE IF Nth[n - 1] = 0 THEN 0
  ELSE buf.block[Nth[n - 1]].next

(* WcmSearchApList and WcmSearchIndexedApList: the first block of the list   *)
(* that is in S, or NULL.                                                    *)
First(S) ==
  LET hits == {n \in Blocks : Nth[n] \in S} IN
  IF hits = {} THEN 0 ELSE Nth[CHOOSE n \in hits : \A m \in hits : n <= m]
WcmSearchApList(x) == First({b \in Blocks : buf.block[b].bssid = x})
WcmSearchIndexedApList(i) == First({b \in Blocks : buf.block[b].index = i})

(* Taking block b out of list l, and putting it at the end.                  *)
Unlink(l, b) ==
  LET before == l.block[b].previous
      behind == l.block[b].next
  IN [l EXCEPT
        !.head = IF before = 0 THEN behind ELSE @,
        !.tail = IF behind = 0 THEN before ELSE @,
        !.block = [c \in Blocks |->
           [l.block[c] EXCEPT !.next = IF c = before THEN behind ELSE @,
                              !.previous = IF c = behind THEN before ELSE @]]]

LinkLast(l, b) ==
  [l EXCEPT
     !.head = IF l.tail = 0 THEN b ELSE @,
     !.tail = b,
     !.block = [c \in Blocks |->
        IF c = b THEN [l.block[c] EXCEPT !.next = 0, !.previous = l.tail]
        ELSE IF c = l.tail THEN [l.block[c] EXCEPT !.next = b]
        ELSE l.block[c]]]

(* WcmAllocApList: the first empty block joins the list with the next index. *)
EmptyBlocks == {b \in Blocks : ~buf.block[b].occupied}
WcmAllocApList ==
  IF buf.count >= maxBlock THEN [to |-> 0, list |-> buf]
  ELSE IF EmptyBlocks = {} THEN [to |-> maxBlock, list |-> buf]
  ELSE LET b == CHOOSE e \in EmptyBlocks : \A c \in EmptyBlocks : e <= c IN
       [to |-> b,
        list |-> [LinkLast([buf EXCEPT !.block[b].occupied = TRUE,
                                       !.block[b].index = buf.count], b)
                    EXCEPT !.count = @ + 1]]

(* The block an access point goes to, and the list it is in.                 *)
Place(x) ==
  LET known == WcmSearchApList(x) IN
  IF known # 0 THEN [to |-> known, list |-> buf]
  ELSE IF WcmAllocApList.to # 0 THEN WcmAllocApList
  ELSE [to |-> IF exchange THEN buf.head ELSE 0, list |-> buf]

(* Mutant: a known access point stays where it is in the list.               *)
WcmAppendApListNot(l, b) == l
(* Mutant: the old neighbour keeps its link to the moved block.              *)
WcmAppendApListDirty(l, b) ==
  LET before == l.block[b].previous
      behind == l.block[b].next
  IN LinkLast([l EXCEPT !.head = IF before = 0 THEN behind ELSE @,
                        !.tail = IF behind = 0 THEN before ELSE @,
                        !.block = [c \in Blocks |->
                          IF c = before THEN [l.block[c] EXCEPT !.next = behind]
                                        ELSE l.block[c]]], b)

(* WcmAppendApList: a block of the list moves to its end.                    *)
WcmAppendApList(l, b) == LinkLast(Unlink(l, b), b)

(* The scan callback, in the interrupt, enters an access point.  One that    *)
(* announces a game, or comes while the list is locked, is dropped.          *)
WCMi_EntryApList(x, l) ==
  LET place == Place(x) IN
  /\ ~apListLock /\ place.to # 0
  /\ buf' = WcmAppendApList([place.list EXCEPT !.block[place.to].bssid = x,
                                                !.block[place.to].level = l], place.to)
  /\ UNCHANGED <<exchange, apListLock, readVars>>

(* WcmConfigure, from WCM_StartupAsync: a cleared buffer and its mode.       *)
WcmConfigure(mode) ==
  /\ held = <<>>
  /\ buf' = Cleared /\ exchange' = mode
  /\ UNCHANGED <<apListLock, readVars>>

(* The application clears the list when it is not reading it.                *)
WCM_ClearApList ==
  /\ held = <<>>
  /\ buf' = Cleared
  /\ UNCHANGED <<exchange, apListLock, readVars>>

(* WCM_LockApList(LOCK), around whatever the application already holds.      *)
WCM_LockApList ==
  /\ Len(held) < MaxNest
  /\ apListLock' = TRUE
  /\ held' = Append(held, apListLock)
  /\ UNCHANGED <<buf, exchange, bd, snapshot>>

(* Mutant: giving back any lock unlocks the list.                            *)
RestoredFlat == FALSE

(* WCM_LockApList with the value the matching call gave.  With the last one  *)
(* the application lets go of the pointer.                                   *)
Restored == held[Len(held)]
WCM_RestoreApList ==
  /\ held # <<>>
  /\ apListLock' = Restored
  /\ held' = SubSeq(held, 1, Len(held) - 1)
  /\ IF Len(held) = 1 THEN bd' = 0 /\ snapshot' = Empty ELSE UNCHANGED <<bd, snapshot>>
  /\ UNCHANGED <<buf, exchange>>

(* WCM_PointApList, with the list locked: a pointer into the block.          *)
WCM_PointApList(i) ==
  LET b == WcmSearchIndexedApList(i) IN
  /\ held # <<>> /\ b # 0
  /\ bd' = b /\ snapshot' = buf.block[b]
  /\ UNCHANGED <<buf, exchange, apListLock, held>>

ApListInit ==
  /\ buf = Cleared /\ exchange \in BOOLEAN
  /\ apListLock = FALSE
  /\ held = <<>> /\ bd = 0 /\ snapshot = Empty

ApListNext ==
  \/ \E x \in Bssids, l \in Levels : WCMi_EntryApList(x, l)
  \/ \E mode \in BOOLEAN : WcmConfigure(mode)
  \/ WCM_ClearApList \/ WCM_LockApList \/ WCM_RestoreApList
  \/ \E i \in 0 .. maxBlock - 1 : WCM_PointApList(i)

ApListSpec == ApListInit /\ [][ApListNext]_apListVars
-----------------------------------------------------------------------------
Block == [occupied : BOOLEAN, index : 0 .. maxBlock, previous : Links, next : Links,
          bssid : Bssids \cup {NoBssid}, level : Levels \cup {0}]

(* Types: links point into the buffer, and the count never passes its size.  *)
ApListTypeOK ==
  /\ buf \in [count : 0 .. maxBlock, head : Links, tail : Links, block : [Blocks -> Block]]
  /\ exchange \in BOOLEAN /\ apListLock \in BOOLEAN
  /\ held \in Seq(BOOLEAN) /\ Len(held) <= MaxNest
  /\ bd \in Links /\ snapshot \in Block

Occupied == {b \in Blocks : buf.block[b].occupied}

(* The list is whole after every entry, move and replacement: the chain from *)
(* the head runs through the occupied blocks and ends at the tail, the       *)
(* backward links mirror it, the application's indexes 0 .. count - 1 each   *)
(* name one block, and no access point is in it twice.                       *)
ListWhole ==
  /\ ApListTypeOK
  /\ {Nth[n] : n \in 1 .. buf.count} = Occupied
  /\ Nth[buf.count] = buf.tail /\ Nth[buf.count + 1] = 0
  /\ \A n \in 1 .. buf.count : buf.block[Nth[n]].previous = Nth[n - 1]
  /\ {buf.block[b].index : b \in Occupied} = 0 .. buf.count - 1
  /\ \A b, c \in Occupied : buf.block[b].bssid = buf.block[c].bssid => b = c

(* A block the application points at keeps its contents until it gives back  *)
(* the outermost lock, however often locks are taken inside it.              *)
ReadStable ==
  bd # 0 =>
    /\ buf.block[bd].bssid = snapshot.bssid
    /\ buf.block[bd].level = snapshot.level

(* The blocks, their links and their recycling are a cache of the access     *)
(* points seen last, in the order in which they were seen.                   *)
Shown(b) == IF b = 0 THEN Empty ELSE buf.block[b]
SeenList == [n \in 1 .. buf.count |->
               [bssid |-> Shown(Nth[n]).bssid, level |-> Shown(Nth[n]).level]]
Cache == INSTANCE ApCache WITH Capacity <- maxBlock, seen <- SeenList
LruSpec == Cache!Spec
=============================================================================
