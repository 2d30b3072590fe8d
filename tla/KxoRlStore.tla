----------------------------- MODULE KxoRlStore -----------------------------
(***************************************************************************)
(* The table of positions the RL agent has values for (src/rl-state.c) and *)
(* the two operations on it (src/rl.c), each of which holds rl_lock until  *)
(* it has looked up all its positions.                                     *)
(*                                                                         *)
(* A stored position has a slot of st_buff, a place in the list orders     *)
(* (head first) and a chain of the hash table.  The hash chains hold       *)
(* exactly the listed positions, because hash_add and hash_del always come *)
(* with list_add and list_del; they are not represented, nor are the       *)
(* fixed-point values, on which nothing here depends.                      *)
(***************************************************************************)
EXTENDS KxoBoard, SequencesExt

CONSTANT MAX_STATES      (* slots of st_buff (2^14 in the program)         *)

ASSUME StoreAssumption == MAX_STATES \in Nat /\ MAX_STATES >= 2

CLEAN_N_STATES == (MAX_STATES * 3) \div 5
Slot == 0 .. MAX_STATES - 1
NoSlot == MAX_STATES     (* what find_first_zero_bit answers when all are set *)
Player == {CELL_O, CELL_X}

VARIABLES
  orders,    (* the list, head first: the order in which clean_state evicts *)
  slot,      (* where each listed position is stored                       *)
  st_map,    (* slots marked as used                                       *)
  lookups,   (* positions the holder of rl_lock looks up, by loop index    *)
  older,     (* history: <<t, u>> of listed t, last used before listed u   *)
  lru        (* history: every eviction so far took the least recently used *)

storeVars == <<orders, slot, st_map, lookups, older, lru>>

Stored == DOMAIN slot

-----------------------------------------------------------------------------
(* find_rl_state                                                           *)
Among(positions) == {p \in older : p[1] \in positions /\ p[2] \in positions}
UsedNow(t, others) == Among(others) \cup {<<u, t>> : u \in others}

(* list_move_tail of the i-th entry.                                       *)
MoveTail(i) == Append(RemoveAt(orders, i), orders[i])

HitKeepsPlace(t) ==                       \* MUTANT: no list_move_tail
  older' = UsedNow(t, Stored \ {t}) /\ UNCHANGED <<orders, slot, st_map, lru>>
Hit(t) ==
  /\ \E i \in DOMAIN orders : orders[i] = t /\ orders' = MoveTail(i)
  /\ older' = UsedNow(t, Stored \ {t})
  /\ UNCHANGED <<slot, st_map, lru>>

(* How many entries clean_state evicts, from the head of the list.         *)
clean_state ==
  IF Len(orders) < CLEAN_N_STATES THEN Len(orders) ELSE CLEAN_N_STATES
Full == Cardinality(st_map) >= MAX_STATES - 1

find_first_zero_bit(map) ==
  IF Slot \subseteq map THEN NoSlot
  ELSE CHOOSE p \in Slot \ map : \A q \in Slot \ map : p <= q

(* The first n entries go, and t gets a free slot and the head of the list. *)
Insert(t, n) ==
  LET gone == {orders[i] : i \in 1 .. n}
      kept == Stored \ gone
      map == st_map \ {slot[u] : u \in gone}
      pos == find_first_zero_bit(map)
  IN  /\ orders' = <<t>> \o SubSeq(orders, n + 1, Len(orders))
      /\ slot' = [u \in kept \cup {t} |-> IF u = t THEN pos ELSE slot[u]]
      /\ st_map' = map \cup {pos}
      /\ older' = UsedNow(t, kept)
      /\ lru' = (lru /\ gone \X kept \subseteq older)

find_rl_state(t) ==
  IF t \in Stored THEN Hit(t) ELSE Insert(t, IF Full THEN clean_state ELSE 0)

(* The next iteration of the loop that holds rl_lock.                      *)
LookUp ==
  \E i \in DOMAIN lookups :
    /\ \A j \in DOMAIN lookups : i <= j
    /\ find_rl_state(lookups[i])
    /\ lookups' = [j \in DOMAIN lookups \ {i} |-> lookups[j]]

-----------------------------------------------------------------------------
(* The positions O and X reach in turn from the empty board.               *)
Count(table, cell) == Cardinality({c \in Cells : table[c] = cell})
Legal == {t \in Table : Count(t, CELL_O) - Count(t, CELL_X) \in {0, 1}}
ToPlay(t) == IF Count(t, CELL_O) = Count(t, CELL_X) THEN CELL_O ELSE CELL_X

Unlocked == lookups = <<>>
LocksFor(positions) ==
  lookups' = positions /\ UNCHANGED <<orders, slot, st_map, older, lru>>

(* play_rl values every position that the player to move can reach; its    *)
(* answer is any empty cell as far as the engine is concerned.             *)
play_rl(table) ==
  LocksFor([c \in for_each_empty_grid(table) |-> VAL_SET_CELL(table, c, ToPlay(table))])

(* update_state_value walks an episode from its last step to its first;    *)
(* step_update_state_value looks each of its positions up.                 *)
update_state_value(episode) == LocksFor(Reverse(episode))

(* Episodes: the positions that one player reached, each with one more     *)
(* mark of either player than the one before.                              *)
Follows(a, b) ==
  /\ \A c \in Cells : a[c] # CELL_EMPTY => b[c] = a[c]
  /\ Count(b, CELL_O) = Count(a, CELL_O) + 1 /\ Count(b, CELL_X) = Count(a, CELL_X) + 1
ReachedBy(player) == {t \in Legal : t # EmptyTable /\ ToPlay(t) # player}
Episodes(player) ==
  {e \in BoundedSeq(ReachedBy(player), (N_GRIDS + 1) \div 2) :
     e # <<>> /\ \A i \in 1 .. Len(e) - 1 : Follows(e[i], e[i + 1])}

-----------------------------------------------------------------------------
(* init_rl_agent *)
StoreInit ==
  /\ orders = <<>> /\ slot = <<>> /\ st_map = {} /\ lookups = <<>>
  /\ older = {} /\ lru = TRUE

PlayRl == Unlocked /\ \E t \in Legal : play_rl(t)
Learn ==
  Unlocked /\ \E player \in Player : \E e \in Episodes(player) : update_state_value(e)
StoreNext == PlayRl \/ Learn \/ LookUp

StoreSpec == StoreInit /\ [][StoreNext]_storeVars

-----------------------------------------------------------------------------
(* List, slots and bitmap describe the same positions: each is listed once *)
(* and has a slot of its own inside st_buff, no slot leaks when positions  *)
(* are evicted, and one slot always stays free.                            *)
StoreConsistent ==
  /\ ToSet(orders) = Stored /\ Len(orders) = Cardinality(Stored)
  /\ \A t \in Stored : slot[t] \in Slot
  /\ \A t, u \in Stored : slot[t] = slot[u] => t = u
  /\ st_map = {slot[t] : t \in Stored}
  /\ Cardinality(Stored) < MAX_STATES

(* What the list order means: the positions that were looked up again      *)
(* since they were stored come last, by their latest use; the others come  *)
(* first, the newest of them at the head.                                  *)
EvictionOrder ==
  \E n \in 0 .. Len(orders) :
    /\ \A i, j \in 1 .. n : i < j => <<orders[j], orders[i]>> \in older
    /\ \A i, j \in n + 1 .. Len(orders) : i < j => <<orders[i], orders[j]>> \in older

(* The store (rl-state.c) after every lookup, in whatever order positions  *)
(* are looked up: list, slots and bitmap agree, and the order of the list  *)
(* means what eviction takes it for.                                       *)
StoreTrue == StoreConsistent /\ EvictionOrder

(* "hashtable-based state storage (16K entries, LRU eviction)" (README.md) *)
LruEviction == lru
=============================================================================
