--------------------------- MODULE KxoLoadAvgProofs ---------------------------
(***************************************************************************)
(* Proofs about the load averages: no time worked is lost or counted twice, *)
(* a copy mixes two publications at most, and the viewer shows the average. *)
(***************************************************************************)
EXTENDS KxoLoadAvg, TLAPS

-----------------------------------------------------------------------------
(* The invariants.  AvgLocked is what avg_lock is for: what a work read of  *)
(* ai_avgs is still there when it adds to it.                              *)
WorkTypes ==
  /\ stage \in [Works -> {"idle", "search", "account", "add"}]
  /\ span \in [Works -> Nat] /\ read \in [Works -> Nat]
  /\ nsecs \in [Works -> Nat] /\ unpaid \in [Works -> Nat]

WordTypes ==
  /\ load_avg \in [Works -> Nat] /\ xo_avgs \in [Works -> Nat]
  /\ pubs \in [Works -> 0 .. 2]

LockTypes ==
  /\ avg_lock \in Works \cup {Idle, HANDLER}
  /\ armed \in BOOLEAN /\ wait \in Nat /\ tv_end \in BOOLEAN

PeriodTypes ==
  /\ elapsed \in Nat /\ delta \in Nat
  /\ next \in Nat /\ next <= 2 * N_GAMES

CopyTypes == copied \in Int /\ copied >= -1 /\ late \in 0 .. 1

AvgTypeOK == WorkTypes /\ WordTypes /\ LockTypes /\ PeriodTypes /\ CopyTypes

AvgLocked ==
  /\ avg_lock = HANDLER <=> next # 0
  /\ wait <= elapsed /\ (next # 0 => delta # 0)
  /\ \A w \in Works : stage[w] = "add" => avg_lock = w /\ read[w] = nsecs[w]

AccountInv == AvgTypeOK /\ AvgLocked /\ WorkCounted

(* A word published since the copy began was published in the one run of   *)
(* the handler that fits between its timer's expirations.                  *)
CopyShort ==
  /\ copied = -1 => late = 0
  /\ copied # -1 => armed
  /\ next # 0 => armed /\ wait = 0

OnePublication ==
  /\ \A w \in Works : pubs[w] \in 0 .. 1
  /\ \A w \in Works : pubs[w] # 0 => copied # -1 /\ wait <= late
  /\ \A k \in 1 .. 2 * N_GAMES : next # 0 /\ next <= k => pubs[Words[k]] = 0

CopyInv == AccountInv /\ CopyShort /\ OnePublication /\ CopyMixesTwo

(* What is published is what the handler computed last.                    *)
PublishedTrue ==
  \A k \in 1 .. 2 * N_GAMES :
    next = 0 \/ k < next => xo_avgs[Words[k]] = Packed(load_avg[Words[k]])

ShownInv == AccountInv /\ PublishedTrue

-----------------------------------------------------------------------------
(* The words of xo_avgs: two for each game, all of them different.         *)
LEMMA WordsFacts ==
  /\ Len(Words) = 2 * N_GAMES
  /\ \A k \in 1 .. 2 * N_GAMES :
       Words[k] \in Works /\ Words[k][1] = (k + 1) \div 2
  /\ \A k, l \in 1 .. 2 * N_GAMES : Words[k] = Words[l] => k = l
  /\ Idle \notin Works /\ HANDLER \notin Works /\ Idle # HANDLER
<1> USE LoadAvgAssumption
<1>1. Len(Words) = 2 * N_GAMES
  BY DEF Words
<1>2. ASSUME NEW k \in 1 .. 2 * N_GAMES
      PROVE  Words[k] \in Works /\ Words[k][1] = (k + 1) \div 2
  BY DEF Words, Works, Games
<1>3. ASSUME NEW k \in 1 .. 2 * N_GAMES, NEW l \in 1 .. 2 * N_GAMES, Words[k] = Words[l]
      PROVE  k = l
  <2>1. (k + 1) \div 2 = (l + 1) \div 2
    BY <1>3 DEF Words
  <2>2. k % 2 = 1 <=> l % 2 = 1
    BY <1>3 DEF Words
  <2> QED
    BY <2>1, <2>2
<1>4. Idle \notin Works /\ HANDLER \notin Works /\ Idle # HANDLER
  BY DEF Idle, HANDLER, Works, Games
<1> QED
  BY <1>1, <1>2, <1>3, <1>4

(* The average neither falls below zero nor rises above what it decays from *)
(* and what it rises to (calc_load).                                       *)
LEMMA CalcLoadBound ==
  ASSUME NEW load \in Nat, NEW charge \in Nat, NEW bound \in Nat,
         load <= bound, charge <= bound
  PROVE  calc_load(load, charge) \in Nat /\ calc_load(load, charge) <= bound
<1> DEFINE sum == load * EXP_1 + charge * (FIXED_1 - EXP_1)
           up  == IF charge >= load THEN FIXED_1 - 1 ELSE 0
<1>1. EXP_1 \in Nat /\ FIXED_1 - EXP_1 \in Nat /\ FIXED_1 \in Nat /\ FIXED_1 > 0
  BY LoadAvgAssumption
<1>2. load * EXP_1 \in Nat /\ charge * (FIXED_1 - EXP_1) \in Nat
  BY <1>1
<1>3. load * EXP_1 <= bound * EXP_1
  BY <1>1
<1>4. charge * (FIXED_1 - EXP_1) <= bound * (FIXED_1 - EXP_1)
  BY <1>1
<1>5. bound * EXP_1 + bound * (FIXED_1 - EXP_1) = bound * FIXED_1
  BY <1>1
<1>6. up \in 0 .. FIXED_1 - 1
  BY <1>1
<1>7. sum + up \in Nat /\ sum + up < bound * FIXED_1 + FIXED_1
  <2> HIDE DEF up
  <2>1. bound * EXP_1 \in Nat /\ bound * (FIXED_1 - EXP_1) \in Nat /\ bound * FIXED_1 \in Nat
    BY <1>1
  <2> QED
    BY <1>1, <1>2, <1>3, <1>4, <1>5, <1>6, <2>1
<1>8. ASSUME NEW n \in Nat, n < bound * FIXED_1 + FIXED_1
      PROVE  n \div FIXED_1 \in Nat /\ n \div FIXED_1 <= bound
  <2> DEFINE q == n \div FIXED_1
  <2>1. q \in Nat /\ q * FIXED_1 <= n
    BY <1>1
  <2> HIDE DEF q
  <2>2. q * FIXED_1 < (bound + 1) * FIXED_1
    BY <1>1, <1>8, <2>1
  <2>3. q < bound + 1
    BY <1>1, <2>1, <2>2
  <2> QED
    BY <2>1, <2>3 DEF q
<1> HIDE DEF sum, up
<1>9. (sum + up) \div FIXED_1 \in Nat /\ (sum + up) \div FIXED_1 <= bound
  BY <1>7, <1>8
<1> QED
  BY <1>9 DEF calc_load, sum, up

-----------------------------------------------------------------------------
(* Works and handler exclude each other, and so WorkCounted.               *)
LEMMA AccountInit == LoadAvgInit => AccountInv
<1> SUFFICES ASSUME LoadAvgInit PROVE AccountInv
  OBVIOUS
<1> USE LoadAvgAssumption
<1>1. WorkTypes /\ WordTypes
  BY DEF LoadAvgInit, WorkTypes, WordTypes
<1>2. LockTypes
  BY DEF LoadAvgInit, LockTypes
<1>3. PeriodTypes /\ CopyTypes
  BY DEF LoadAvgInit, PeriodTypes, CopyTypes
<1>4. AvgLocked
  BY WordsFacts DEF LoadAvgInit, AvgLocked
<1>5. WorkCounted
  BY DEF LoadAvgInit, WorkCounted
<1> QED
  BY <1>1, <1>2, <1>3, <1>4, <1>5 DEF AccountInv, AvgTypeOK

(* What one run of the handler does to the accumulators: it takes all that *)
(* is there and charges it.                                                *)
LEMMA UpdatedType ==
  ASSUME AvgTypeOK, delta # 0, NEW w \in Works
  PROVE  Updated(w) \in Nat
<1>1. load_avg[w] \in Nat /\ nsecs[w] \in Nat /\ delta \in Nat \ {0}
  BY DEF AvgTypeOK, WorkTypes, WordTypes, PeriodTypes
<1>2. FIXED_1 \in Nat \ {0}
  BY LoadAvgAssumption
<1>3. nsecs[w] * FIXED_1 \in Nat
  BY <1>1, <1>2
<1> DEFINE charge == (nsecs[w] * FIXED_1) \div delta
<1>4. charge \in Nat
  BY <1>1, <1>3
<1>5. \E bound \in Nat : load_avg[w] <= bound /\ charge <= bound
  <2> HIDE DEF charge
  <2>1. CASE load_avg[w] <= charge
    BY <1>4, <2>1
  <2>2. CASE ~(load_avg[w] <= charge)
    BY <1>1, <1>4, <2>2
  <2> QED
    BY <2>1, <2>2
<1>6. calc_load(load_avg[w], charge) \in Nat
  <2> HIDE DEF charge
  <2> QED
    BY <1>1, <1>4, <1>5, CalcLoadBound
<1> QED
  BY <1>1, <1>6 DEF Updated

(* Packed words are words.                                                 *)
LEMMA PackedType == ASSUME NEW load \in Nat PROVE Packed(load) \in Nat
<1>1. FIXED_1 \in Nat \ {0}
  BY LoadAvgAssumption
<1>2. load \div FIXED_1 \in Nat /\ load % FIXED_1 \in Nat
  BY <1>1
<1>3. ((load % FIXED_1) * 100) \div FIXED_1 \in Nat
  BY <1>1, <1>2
<1> QED
  BY <1>2, <1>3 DEF Packed, LOAD_INT, LOAD_FRAC

(* Every action keeps the types.                                           *)
LEMMA AvgTypeStep ==
  AvgTypeOK /\ AvgLocked /\ [LoadAvgNext]_loadAvgVars => AvgTypeOK'
<1> SUFFICES ASSUME AvgTypeOK, AvgLocked, [LoadAvgNext]_loadAvgVars PROVE AvgTypeOK'
  OBVIOUS
<1>0. WorkTypes /\ WordTypes /\ LockTypes /\ PeriodTypes /\ CopyTypes
  BY DEF AvgTypeOK
<1> USE LoadAvgAssumption
<1>1. ASSUME NEW w \in Works, AiStart(w) PROVE AvgTypeOK'
  <2>1. WorkTypes'
    BY <1>0, <1>1 DEF WorkTypes, AiStart, avgVars, timerVars, handlerVars, copyVars
  <2>2. WordTypes'
    BY <1>0, <1>1 DEF WordTypes, AiStart, avgVars, timerVars, handlerVars, copyVars
  <2>3. LockTypes'
    BY <1>0, <1>1 DEF LockTypes, AiStart, avgVars, timerVars, handlerVars, copyVars
  <2>4. PeriodTypes'
    BY <1>0, <1>1 DEF PeriodTypes, AiStart, avgVars, timerVars, handlerVars, copyVars
  <2>5. CopyTypes'
    BY <1>0, <1>1 DEF CopyTypes, AiStart, avgVars, timerVars, handlerVars, copyVars
  <2> QED
    BY <2>1, <2>2, <2>3, <2>4, <2>5 DEF AvgTypeOK
<1>2. ASSUME NEW w \in Works, AiMoved(w) PROVE AvgTypeOK'
  <2>1. WorkTypes'
    BY <1>0, <1>2 DEF WorkTypes, AiMoved, avgVars, timerVars, handlerVars, copyVars
  <2>2. WordTypes'
    BY <1>0, <1>2 DEF WordTypes, AiMoved, avgVars, timerVars, handlerVars, copyVars
  <2>3. LockTypes'
    BY <1>0, <1>2 DEF LockTypes, AiMoved, avgVars, timerVars, handlerVars, copyVars
  <2>4. PeriodTypes'
    BY <1>0, <1>2 DEF PeriodTypes, AiMoved, avgVars, timerVars, handlerVars, copyVars
  <2>5. CopyTypes'
    BY <1>0, <1>2 DEF CopyTypes, AiMoved, avgVars, timerVars, handlerVars, copyVars
  <2> QED
    BY <2>1, <2>2, <2>3, <2>4, <2>5 DEF AvgTypeOK
<1>3. ASSUME NEW w \in Works, AiLockAvg(w) PROVE AvgTypeOK'
  <2>1. WorkTypes'
    BY <1>0, <1>3 DEF WorkTypes, AiLockAvg, avgVars, timerVars, handlerVars, copyVars
  <2>2. WordTypes'
    BY <1>0, <1>3 DEF WordTypes, AiLockAvg, avgVars, timerVars, handlerVars, copyVars
  <2>3. LockTypes'
    BY <1>0, <1>3 DEF LockTypes, AiLockAvg, avgVars, timerVars, handlerVars, copyVars
  <2>4. PeriodTypes'
    BY <1>0, <1>3 DEF PeriodTypes, AiLockAvg, avgVars, timerVars, handlerVars, copyVars
  <2>5. CopyTypes'
    BY <1>0, <1>3 DEF CopyTypes, AiLockAvg, avgVars, timerVars, handlerVars, copyVars
  <2> QED
    BY <2>1, <2>2, <2>3, <2>4, <2>5 DEF AvgTypeOK
<1>4. ASSUME NEW w \in Works, AiAdd(w) PROVE AvgTypeOK'
  <2>1. WorkTypes'
    BY <1>0, <1>4 DEF WorkTypes, AiAdd, timerVars, handlerVars, copyVars
  <2>2. WordTypes'
    BY <1>0, <1>4 DEF WordTypes, AiAdd, timerVars, handlerVars, copyVars
  <2>3. LockTypes'
    BY <1>0, <1>4 DEF LockTypes, AiAdd, timerVars, handlerVars, copyVars
  <2>4. PeriodTypes'
    BY <1>0, <1>4 DEF PeriodTypes, AiAdd, timerVars, handlerVars, copyVars
  <2>5. CopyTypes'
    BY <1>0, <1>4 DEF CopyTypes, AiAdd, timerVars, handlerVars, copyVars
  <2> QED
    BY <2>1, <2>2, <2>3, <2>4, <2>5 DEF AvgTypeOK
<1>5. CASE LoadavgStart
  <2>1. WorkTypes'
    BY <1>0, <1>5 DEF WorkTypes, LoadavgStart, workVars, avgVars, handlerVars, copyVars
  <2>2. WordTypes'
    BY <1>0, <1>5 DEF WordTypes, LoadavgStart, workVars, avgVars, handlerVars, copyVars
  <2>3. LockTypes'
    BY <1>0, <1>5 DEF LockTypes, LoadavgStart, workVars, avgVars, handlerVars, copyVars
  <2>4. PeriodTypes'
    BY <1>0, <1>5 DEF PeriodTypes, LoadavgStart, workVars, avgVars, handlerVars, copyVars
  <2>5. CopyTypes'
    BY <1>0, <1>5 DEF CopyTypes, LoadavgStart, workVars, avgVars, handlerVars, copyVars
  <2> QED
    BY <2>1, <2>2, <2>3, <2>4, <2>5 DEF AvgTypeOK
<1>6. CASE loadavg_handler
  <2>1. delta # 0 /\ next \in 1 .. 2 * N_GAMES /\ Words[next] \in Works
    BY <1>0, <1>6, WordsFacts DEF loadavg_handler, PublishWord, AvgLocked, PeriodTypes
  <2>2. \A w \in Works : Updated(w) \in Nat
    BY <2>1, UpdatedType
  <2>3. /\ nsecs' \in [Works -> Nat] /\ unpaid' \in [Works -> Nat]
        /\ load_avg' \in [Works -> Nat]
    BY <1>0, <1>6, <2>2 DEF loadavg_handler, LoadavgGame, avgVars, WorkTypes, WordTypes
  <2>4. WorkTypes'
    BY <1>0, <1>6, <2>3 DEF WorkTypes, loadavg_handler, workVars
  <2>5. Packed(load_avg'[Words[next]]) \in Nat
    BY <2>1, <2>3, PackedType
  <2>6. WordTypes'
    <3>1. xo_avgs' \in [Works -> Nat]
      BY <1>0, <1>6, <2>1, <2>5 DEF WordTypes, loadavg_handler, PublishWord
    <3>2. pubs[Words[next]] \in 0 .. 2
      BY <1>0, <2>1 DEF WordTypes
    <3>3. (IF copied = -1 \/ pubs[Words[next]] = 2 THEN pubs[Words[next]]
           ELSE pubs[Words[next]] + 1) \in 0 .. 2
      BY <3>2
    <3>4. pubs' \in [Works -> 0 .. 2]
      BY <1>0, <1>6, <2>1, <3>3, Zenon DEF WordTypes, loadavg_handler, PublishWord
    <3> QED
      BY <2>3, <3>1, <3>4 DEF WordTypes
  <2>7. LockTypes'
    BY <1>0, <1>6 DEF LockTypes, loadavg_handler, PublishWord, timerVars
  <2>8. PeriodTypes'
    <3>1. /\ elapsed' = elapsed
          /\ IF next = Len(Words) THEN next' = 0 /\ delta' = 0
                                  ELSE next' = next + 1 /\ delta' = delta
      BY <1>6 DEF loadavg_handler, PublishWord, timerVars
    <3>2. Len(Words) = 2 * N_GAMES /\ N_GAMES \in Nat
      BY WordsFacts DEF LoadAvgAssumption
    <3> QED
      BY <1>0, <2>1, <3>1, <3>2 DEF PeriodTypes
  <2>9. CopyTypes'
    BY <1>0, <1>6 DEF CopyTypes, loadavg_handler, copyVars
  <2> QED
    BY <2>4, <2>6, <2>7, <2>8, <2>9 DEF AvgTypeOK
<1>7. CASE kxo_ioctl \/ IoctlWord
  <2>1. WorkTypes'
    BY <1>0, <1>7 DEF WorkTypes, kxo_ioctl, IoctlWord, workVars, avgVars, timerVars, handlerVars
  <2>2. WordTypes'
    BY <1>0, <1>7 DEF WordTypes, kxo_ioctl, IoctlWord, workVars, avgVars, timerVars, handlerVars
  <2>3. LockTypes'
    BY <1>0, <1>7 DEF LockTypes, kxo_ioctl, IoctlWord, workVars, avgVars, timerVars, handlerVars
  <2>4. PeriodTypes'
    BY <1>0, <1>7 DEF PeriodTypes, kxo_ioctl, IoctlWord, workVars, avgVars, timerVars, handlerVars
  <2>5. CopyTypes'
    BY <1>0, <1>7 DEF CopyTypes, kxo_ioctl, IoctlWord, workVars, avgVars, timerVars, handlerVars
  <2> QED
    BY <2>1, <2>2, <2>3, <2>4, <2>5 DEF AvgTypeOK
<1>8. CASE IoctlReturns
  <2>1. WorkTypes'
    BY <1>0, <1>8 DEF WorkTypes, IoctlReturns, workVars, avgVars, timerVars, handlerVars
  <2>2. WordTypes'
    BY <1>0, <1>8 DEF WordTypes, IoctlReturns, workVars, avgVars, timerVars, handlerVars
  <2>3. LockTypes'
    BY <1>0, <1>8 DEF LockTypes, IoctlReturns, workVars, avgVars, timerVars, handlerVars
  <2>4. PeriodTypes'
    BY <1>0, <1>8 DEF PeriodTypes, IoctlReturns, workVars, avgVars, timerVars, handlerVars
  <2>5. CopyTypes'
    BY <1>0, <1>8 DEF CopyTypes, IoctlReturns, workVars, avgVars, timerVars, handlerVars
  <2> QED
    BY <2>1, <2>2, <2>3, <2>4, <2>5 DEF AvgTypeOK
<1>9. CASE ArmLoadavg
  <2>1. WorkTypes'
    BY <1>0, <1>9 DEF WorkTypes, ArmLoadavg, workVars, avgVars, handlerVars, copyVars
  <2>2. WordTypes'
    BY <1>0, <1>9 DEF WordTypes, ArmLoadavg, workVars, avgVars, handlerVars, copyVars
  <2>3. LockTypes'
    BY <1>0, <1>9 DEF LockTypes, ArmLoadavg, workVars, avgVars, handlerVars, copyVars
  <2>4. PeriodTypes'
    BY <1>0, <1>9 DEF PeriodTypes, ArmLoadavg, workVars, avgVars, handlerVars, copyVars
  <2>5. CopyTypes'
    BY <1>0, <1>9 DEF CopyTypes, ArmLoadavg, workVars, avgVars, handlerVars, copyVars
  <2> QED
    BY <2>1, <2>2, <2>3, <2>4, <2>5 DEF AvgTypeOK
<1>12. CASE DelLoadavg
  <2>1. WorkTypes'
    BY <1>0, <1>12 DEF WorkTypes, DelLoadavg, workVars, avgVars, handlerVars, copyVars
  <2>2. WordTypes'
    BY <1>0, <1>12 DEF WordTypes, DelLoadavg, workVars, avgVars, handlerVars, copyVars
  <2>3. LockTypes'
    BY <1>0, <1>12 DEF LockTypes, DelLoadavg, workVars, avgVars, handlerVars, copyVars
  <2>4. PeriodTypes'
    BY <1>0, <1>12 DEF PeriodTypes, DelLoadavg, workVars, avgVars, handlerVars, copyVars
  <2>5. CopyTypes'
    BY <1>0, <1>12 DEF CopyTypes, DelLoadavg, workVars, avgVars, handlerVars, copyVars
  <2> QED
    BY <2>1, <2>2, <2>3, <2>4, <2>5 DEF AvgTypeOK
<1>10. CASE Tick
  <2>1. WorkTypes'
    BY <1>0, <1>10 DEF WorkTypes, Tick, avgVars, handlerVars
  <2>2. WordTypes'
    BY <1>0, <1>10 DEF WordTypes, Tick, avgVars, handlerVars
  <2>3. LockTypes'
    BY <1>0, <1>10 DEF LockTypes, Tick, avgVars, handlerVars
  <2>4. PeriodTypes'
    BY <1>0, <1>10 DEF PeriodTypes, Tick, avgVars, handlerVars
  <2>5. CopyTypes'
    BY <1>0, <1>10 DEF CopyTypes, Tick, avgVars, handlerVars
  <2> QED
    BY <2>1, <2>2, <2>3, <2>4, <2>5 DEF AvgTypeOK
<1>11. CASE UNCHANGED loadAvgVars
  <2>1. WorkTypes'
    BY <1>0, <1>11 DEF WorkTypes, loadAvgVars, workVars, avgVars, timerVars, handlerVars, copyVars
  <2>2. WordTypes'
    BY <1>0, <1>11 DEF WordTypes, loadAvgVars, workVars, avgVars, timerVars, handlerVars, copyVars
  <2>3. LockTypes'
    BY <1>0, <1>11 DEF LockTypes, loadAvgVars, workVars, avgVars, timerVars, handlerVars, copyVars
  <2>4. PeriodTypes'
    BY <1>0, <1>11 DEF PeriodTypes, loadAvgVars, workVars, avgVars, timerVars, handlerVars, copyVars
  <2>5. CopyTypes'
    BY <1>0, <1>11 DEF CopyTypes, loadAvgVars, workVars, avgVars, timerVars, handlerVars, copyVars
  <2> QED
    BY <2>1, <2>2, <2>3, <2>4, <2>5 DEF AvgTypeOK
<1> QED
  BY <1>1, <1>2, <1>3, <1>4, <1>5, <1>6, <1>7, <1>8, <1>9, <1>10, <1>11, <1>12 DEF LoadAvgNext

(* Works and handler exclude each other: what a work read of ai_avgs is    *)
(* there until it has added its time.                                      *)
LEMMA AvgLockedStep ==
  AvgTypeOK /\ AvgLocked /\ [LoadAvgNext]_loadAvgVars => AvgLocked'
<1> SUFFICES ASSUME AvgTypeOK, AvgLocked, [LoadAvgNext]_loadAvgVars PROVE AvgLocked'
  OBVIOUS
<1>0. /\ WorkTypes /\ LockTypes /\ PeriodTypes
      /\ avg_period > 0 /\ avg_period \in Nat
      /\ Idle \notin Works /\ HANDLER \notin Works /\ Idle # HANDLER
  BY WordsFacts, LoadAvgAssumption DEF AvgTypeOK
<1> USE DEF AvgLocked
<1>1. ASSUME NEW w \in Works, AiStart(w) \/ AiMoved(w) PROVE AvgLocked'
  BY <1>0, <1>1 DEF AiStart, AiMoved, avgVars, timerVars, handlerVars, WorkTypes
<1>2. ASSUME NEW w \in Works, AiLockAvg(w) PROVE AvgLocked'
  BY <1>0, <1>2 DEF AiLockAvg, avgVars, timerVars, handlerVars, WorkTypes
<1>3. ASSUME NEW w \in Works, AiAdd(w) PROVE AvgLocked'
  BY <1>0, <1>3 DEF AiAdd, timerVars, handlerVars, WorkTypes
<1>4. CASE LoadavgStart
  BY <1>0, <1>4 DEF LoadavgStart, workVars, avgVars, handlerVars, LockTypes, PeriodTypes
<1>5. CASE loadavg_handler
  <2>1. next # 0 /\ avg_lock = HANDLER /\ \A w \in Works : stage[w] # "add"
    BY <1>0, <1>5 DEF loadavg_handler, PublishWord
  <2> QED
    BY <1>0, <1>5, <2>1 DEF loadavg_handler, PublishWord, workVars, timerVars, PeriodTypes
<1>6. CASE kxo_ioctl \/ IoctlWord \/ IoctlReturns
  BY <1>6 DEF kxo_ioctl, IoctlWord, IoctlReturns, workVars, avgVars, timerVars, handlerVars
<1>7. CASE ArmLoadavg \/ DelLoadavg
  BY <1>0, <1>7 DEF ArmLoadavg, DelLoadavg, workVars, avgVars, handlerVars, PeriodTypes
<1>8. CASE Tick
  BY <1>0, <1>8 DEF Tick, avgVars, handlerVars, LockTypes, PeriodTypes
<1>9. CASE UNCHANGED loadAvgVars
  BY <1>9 DEF loadAvgVars, workVars, avgVars, timerVars, handlerVars
<1> QED
  BY <1>1, <1>2, <1>3, <1>4, <1>5, <1>6, <1>7, <1>8, <1>9 DEF LoadAvgNext

(* A work adds to what it read, and the handler takes all there is.        *)
LEMMA WorkCountedStep == AccountInv /\ [LoadAvgNext]_loadAvgVars => WorkCounted'
<1> SUFFICES ASSUME AccountInv, [LoadAvgNext]_loadAvgVars PROVE WorkCounted'
  OBVIOUS
<1>0. WorkTypes /\ AvgLocked
  BY DEF AccountInv, AvgTypeOK
<1> USE DEF WorkCounted, AccountInv
<1>1. ASSUME NEW w \in Works, AiStart(w) \/ AiMoved(w) \/ AiLockAvg(w) PROVE WorkCounted'
  BY <1>1 DEF AiStart, AiMoved, AiLockAvg, avgVars
<1>2. ASSUME NEW w \in Works, AiAdd(w) PROVE WorkCounted'
  BY <1>0, <1>2 DEF AiAdd, AvgLocked, WorkTypes
<1>3. CASE loadavg_handler
  BY <1>3 DEF loadavg_handler, LoadavgGame, avgVars
<1>4. CASE LoadavgStart \/ kxo_ioctl \/ IoctlWord \/ IoctlReturns
  BY <1>4 DEF LoadavgStart, kxo_ioctl, IoctlWord, IoctlReturns, avgVars
<1>5. CASE ArmLoadavg \/ DelLoadavg \/ Tick \/ UNCHANGED loadAvgVars
  BY <1>5 DEF ArmLoadavg, DelLoadavg, Tick, loadAvgVars, avgVars
<1> QED
  BY <1>1, <1>2, <1>3, <1>4, <1>5 DEF LoadAvgNext

(* The part of the invariant that needs no bound on time.                  *)
LEMMA AccountStep == AccountInv /\ [LoadAvgNext]_loadAvgVars => AccountInv'
BY AvgTypeStep, AvgLockedStep, WorkCountedStep DEF AccountInv

(* Every tick an agent works goes into one average, once, for any number   *)
(* of games and whatever the periods, opens and closes.                    *)
THEOREM TimeCounted == LoadAvgSpec => []WorkCounted
<1>1. AccountInv => WorkCounted
  BY DEF AccountInv
<1> QED
  BY <1>1, AccountInit, AccountStep, PTL DEF LoadAvgSpec

-----------------------------------------------------------------------------
(* While kxo_ioctl copies, the handler runs once at most.                  *)
LEMMA CopyShortStep == CopyInv /\ [LoadAvgNext]_loadAvgVars => CopyShort'
<1> SUFFICES ASSUME CopyInv, [LoadAvgNext]_loadAvgVars PROVE CopyShort'
  OBVIOUS
<1>0. LockTypes /\ PeriodTypes /\ CopyTypes /\ AvgLocked /\ CopyShort /\ Len(Words) \in Nat
  BY WordsFacts, LoadAvgAssumption DEF CopyInv, AccountInv, AvgTypeOK
<1>1. Idle # HANDLER /\ HANDLER \notin Works
  BY WordsFacts
<1> USE DEF CopyShort
<1>2. ASSUME NEW w \in Works, AiStart(w) \/ AiMoved(w) \/ AiLockAvg(w) \/ AiAdd(w)
      PROVE  CopyShort'
  BY <1>0, <1>2 DEF AiStart, AiMoved, AiLockAvg, AiAdd, timerVars, handlerVars, copyVars
<1>3. CASE LoadavgStart
  BY <1>0, <1>3 DEF LoadavgStart, copyVars, handlerVars
<1>4. CASE loadavg_handler
  BY <1>0, <1>4 DEF loadavg_handler, PublishWord, timerVars, copyVars, AvgLocked
<1>5. CASE kxo_ioctl \/ IoctlWord \/ IoctlReturns
  BY <1>0, <1>5 DEF kxo_ioctl, IoctlWord, IoctlReturns, timerVars, handlerVars
<1>6. CASE ArmLoadavg \/ DelLoadavg
  BY <1>0, <1>1, <1>6 DEF ArmLoadavg, DelLoadavg, handlerVars, copyVars, AvgLocked
<1>7. CASE Tick
  BY <1>0, <1>1, <1>7 DEF Tick, handlerVars, AvgLocked
<1>8. CASE UNCHANGED loadAvgVars
  BY <1>0, <1>8 DEF loadAvgVars, timerVars, handlerVars, copyVars
<1> QED
  BY <1>2, <1>3, <1>4, <1>5, <1>6, <1>7, <1>8 DEF LoadAvgNext

(* A word published since the copy began was published by the one run of   *)
(* the handler that can have begun since, or was going on.                 *)
LEMMA OnePublicationStep ==
  avg_period > 1 /\ CopyInv /\ [LoadAvgNext]_loadAvgVars => OnePublication'
<1> SUFFICES ASSUME avg_period > 1, CopyInv, [LoadAvgNext]_loadAvgVars
             PROVE  OnePublication'
  OBVIOUS
<1>0. /\ LockTypes /\ PeriodTypes /\ CopyTypes /\ AvgLocked /\ CopyShort /\ OnePublication
      /\ pubs \in [Works -> 0 .. 2] /\ avg_period \in Nat
  BY LoadAvgAssumption DEF CopyInv, AccountInv, AvgTypeOK, WordTypes
<1>1. Idle # HANDLER /\ HANDLER \notin Works /\ Len(Words) = 2 * N_GAMES
  BY WordsFacts
<1>2. ASSUME NEW k \in 1 .. 2 * N_GAMES PROVE Words[k] \in Works
  BY WordsFacts
<1> USE DEF OnePublication
<1>3. ASSUME NEW w \in Works, AiStart(w) \/ AiMoved(w) \/ AiLockAvg(w) \/ AiAdd(w)
      PROVE  OnePublication'
  BY <1>0, <1>3 DEF AiStart, AiMoved, AiLockAvg, AiAdd, timerVars, handlerVars, copyVars
<1>4. CASE LoadavgStart
  <2>1. \A w \in Works : pubs[w] = 0
    BY <1>0, <1>4 DEF LoadavgStart, LockTypes, CopyTypes
  <2> QED
    BY <1>2, <1>4, <2>1 DEF LoadavgStart, copyVars
<1>5. CASE loadavg_handler
  <2>1. /\ next \in 1 .. 2 * N_GAMES /\ Words[next] \in Works /\ pubs[Words[next]] = 0
        /\ wait = 0
    BY <1>0, <1>1, <1>2, <1>5 DEF loadavg_handler, PublishWord, AvgLocked, PeriodTypes, CopyShort
  <2>2. pubs' = [pubs EXCEPT ![Words[next]] = IF copied = -1 THEN 0 ELSE 1]
    BY <1>5, <2>1 DEF loadavg_handler, PublishWord
  <2>3. \A w \in Works :
          \/ pubs'[w] = pubs[w]
          \/ w = Words[next] /\ pubs'[w] = 1 /\ copied # -1
    BY <1>0, <2>1, <2>2
  <2>4. \A k \in 1 .. 2 * N_GAMES : k > next => pubs'[Words[k]] = 0
    <3> SUFFICES ASSUME NEW k \in 1 .. 2 * N_GAMES, k > next PROVE pubs'[Words[k]] = 0
      OBVIOUS
    <3>1. pubs[Words[k]] = 0 /\ Words[k] # Words[next]
      BY <1>0, <2>1, WordsFacts
    <3> QED
      BY <1>2, <2>3, <3>1
  <2>5. next' = 0 \/ next' = next + 1
    BY <1>5 DEF loadavg_handler, PublishWord
  <2>6. wait' = wait /\ late' = late /\ copied' = copied
    BY <1>5 DEF loadavg_handler, timerVars, copyVars
  <2>7. \A w \in Works : pubs'[w] \in 0 .. 1 /\ (pubs'[w] # 0 => copied' # -1 /\ wait' <= late')
    BY <1>0, <2>1, <2>3, <2>6 DEF CopyTypes
  <2> QED
    BY <2>1, <2>4, <2>5, <2>7
<1>6. CASE kxo_ioctl \/ IoctlWord
  BY <1>0, <1>6 DEF kxo_ioctl, IoctlWord, timerVars, handlerVars, CopyTypes
<1>7. CASE IoctlReturns
  BY <1>2, <1>7 DEF IoctlReturns
<1>8. CASE ArmLoadavg \/ DelLoadavg
  BY <1>0, <1>8 DEF ArmLoadavg, DelLoadavg, handlerVars, copyVars, CopyShort, CopyTypes
<1>9. CASE Tick
  <2>1. \A w \in Works : pubs[w] # 0 => wait' <= late'
    BY <1>0, <1>9 DEF Tick, LockTypes, CopyTypes
  <2> QED
    BY <1>0, <1>9, <2>1 DEF Tick, handlerVars
<1>10. CASE UNCHANGED loadAvgVars
  BY <1>0, <1>10 DEF loadAvgVars, timerVars, handlerVars, copyVars
<1> QED
  BY <1>3, <1>4, <1>5, <1>6, <1>7, <1>8, <1>9, <1>10 DEF LoadAvgNext

(* What is copied is of no publication, or of one, since the copy began.   *)
LEMMA CopyMixesTwoStep == CopyInv /\ [LoadAvgNext]_loadAvgVars => CopyMixesTwo'
<1> SUFFICES ASSUME CopyInv, [LoadAvgNext]_loadAvgVars PROVE CopyMixesTwo'
  OBVIOUS
<1> USE DEF CopyMixesTwo, CopyInv
<1>1. CASE IoctlWord
  <2>1. copied + 1 \in 1 .. 2 * N_GAMES
    BY <1>1, WordsFacts, LoadAvgAssumption DEF IoctlWord
  <2>2. pubs[Words[copied + 1]] \in {0, 1}
    BY <2>1, WordsFacts DEF OnePublication
  <2> QED
    BY <1>1, <2>2 DEF IoctlWord
<1>2. CASE IoctlReturns
  BY <1>2 DEF IoctlReturns
<1>3. CASE mixed' = mixed
  BY <1>3
<1> QED
  BY <1>1, <1>2, <1>3 DEF LoadAvgNext, AiStart, AiMoved, AiLockAvg, AiAdd, LoadavgStart,
     loadavg_handler, kxo_ioctl, ArmLoadavg, DelLoadavg, Tick, loadAvgVars, copyVars

(* What a copy returns is of two publications that follow each other at    *)
(* most, as a copy of a few words takes less time than a period.           *)
THEOREM CopyOfTwo ==
  ASSUME avg_period > 1
  PROVE  LoadAvgSpec => []CopyMixesTwo
<1>1. LoadAvgInit => CopyInv
  <2> SUFFICES ASSUME LoadAvgInit PROVE CopyInv
    OBVIOUS
  <2>1. CopyShort /\ CopyMixesTwo
    BY DEF LoadAvgInit, CopyShort, CopyMixesTwo
  <2>2. OnePublication
    BY WordsFacts DEF LoadAvgInit, OnePublication
  <2> QED
    BY <2>1, <2>2, AccountInit DEF CopyInv
<1>2. CopyInv /\ [LoadAvgNext]_loadAvgVars => CopyInv'
  BY AccountStep, CopyShortStep, OnePublicationStep, CopyMixesTwoStep DEF CopyInv
<1>3. CopyInv => CopyMixesTwo
  BY DEF CopyInv
<1> QED
  BY <1>1, <1>2, <1>3, PTL DEF LoadAvgSpec

-----------------------------------------------------------------------------
(* A load comes back out of the bits it is packed into: the four lowest of *)
(* its whole part, and its hundredths.                                     *)
LEMMA FracBelow ==
  ASSUME NEW n \in Nat, NEW d \in Nat \ {0}, n < d
  PROVE  (n * 100) \div d \in 0 .. 99
<1> DEFINE q == (n * 100) \div d
<1>1. q \in Nat /\ q * d <= n * 100
  OBVIOUS
<1> HIDE DEF q
<1>2. q * d < 100 * d
  BY <1>1
<1>3. q < 100
  BY <1>1, <1>2
<1> QED
  BY <1>1, <1>3 DEF q

LEMMA ShownPacked ==
  ASSUME NEW load \in Nat
  PROVE  Shown(Packed(load)) = <<LOAD_INT(load) % 16, LOAD_FRAC(load)>>
<1>1. FIXED_1 \in Nat \ {0}
  BY LoadAvgAssumption
<1>2. LOAD_INT(load) \in Nat
  BY <1>1 DEF LOAD_INT
<1>3. LOAD_FRAC(load) \in 0 .. 99
  <2>1. load % FIXED_1 \in Nat /\ load % FIXED_1 < FIXED_1
    BY <1>1
  <2> QED
    BY <1>1, <2>1, FracBelow DEF LOAD_FRAC, LOAD_INT
<1>4. ASSUME NEW i \in Nat, NEW f \in 0 .. 99
      PROVE  Shown((i * 128 + (f % 128)) % 65536) = <<i % 16, f>>
  <2> DEFINE k == i \div 512
             r == i % 512
             low == 128 * r + f
  <2>1. /\ i = 512 * k + r /\ k \in Nat
        /\ r \in Int /\ 0 <= r /\ r <= 511 /\ f \in Int /\ 0 <= f /\ f <= 99
    OBVIOUS
  <2>2. f % 128 = f
    OBVIOUS
  <2>3. r % 16 = i % 16
    OBVIOUS
  <2> HIDE DEF k, r
  <2>4. low \div 128 = r /\ low % 128 = f
    BY <2>1
  <2>5. low \in Int /\ 0 <= low /\ low < 65536 /\ i * 128 + f = 65536 * k + low
    BY <2>1
  <2> HIDE DEF low
  <2>6. (65536 * k + low) % 65536 = low
    BY <2>1, <2>5
  <2>7. (i * 128 + (f % 128)) % 65536 = low
    BY ONLY <2>2, <2>5, <2>6
  <2>8. (low \div 128) % 16 = i % 16 /\ low % 128 = f
    BY <2>3, <2>4
  <2> QED
    BY ONLY <2>7, <2>8 DEF Shown
<1> QED
  BY <1>2, <1>3, <1>4 DEF Packed

-----------------------------------------------------------------------------
(* A word is that of its average, but for those the handler has yet to     *)
(* come to in the run that goes on.                                        *)
LEMMA PublishedTrueStep ==
  ShownInv /\ [LoadAvgNext]_loadAvgVars => PublishedTrue'
<1> SUFFICES ASSUME ShownInv, [LoadAvgNext]_loadAvgVars PROVE PublishedTrue'
  OBVIOUS
<1>0. WordTypes /\ PeriodTypes /\ AvgLocked /\ PublishedTrue /\ N_GAMES \in Nat \ {0}
  BY LoadAvgAssumption DEF ShownInv, AccountInv, AvgTypeOK
<1>1. CASE loadavg_handler
  <2>1. next \in 1 .. 2 * N_GAMES
    BY <1>0, <1>1 DEF loadavg_handler, PublishWord, AvgLocked, PeriodTypes
  <2>2. ASSUME NEW k \in 1 .. 2 * N_GAMES, next' = 0 \/ k < next'
        PROVE  xo_avgs'[Words[k]] = Packed(load_avg'[Words[k]])
    <3>1. Words[k] \in Works /\ Words[next] \in Works
      BY <2>1, WordsFacts
    <3>2. k <= next
      BY <1>0, <1>1, <2>1, <2>2, WordsFacts DEF loadavg_handler, PublishWord
    <3>3. CASE k = next
      BY <1>0, <1>1, <3>1, <3>3 DEF loadavg_handler, PublishWord, WordTypes
    <3>4. CASE k < next
      <4>1. Words[k] # Words[next]
        BY <2>1, <3>4, WordsFacts
      <4>2. xo_avgs'[Words[k]] = xo_avgs[Words[k]]
        BY <1>0, <1>1, <3>1, <4>1 DEF loadavg_handler, PublishWord, WordTypes
      <4>3. xo_avgs[Words[k]] = Packed(load_avg[Words[k]])
        BY <1>0, <3>4 DEF PublishedTrue
      <4>4. load_avg'[Words[k]] = load_avg[Words[k]]
        <5>1. CASE next % 2 = 1
          <6>1. Words[k][1] # Words[next][1]
            <7>1. Words[k][1] = (k + 1) \div 2 /\ Words[next][1] = (next + 1) \div 2
              BY <2>1, WordsFacts
            <7> QED
              BY <2>1, <3>4, <5>1, <7>1
          <6> QED
            BY <1>1, <3>1, <5>1, <6>1 DEF loadavg_handler, LoadavgGame, avgVars
        <5>2. CASE next % 2 # 1
          BY <1>1, <5>2 DEF loadavg_handler, LoadavgGame, avgVars
        <5> QED
          BY <5>1, <5>2
      <4> QED
        BY <4>2, <4>3, <4>4
    <3> QED
      BY <2>1, <3>2, <3>3, <3>4
  <2> QED
    BY <2>2 DEF PublishedTrue
<1>2. CASE LoadavgStart
  BY <1>0, <1>2 DEF PublishedTrue, LoadavgStart, avgVars, handlerVars
<1>3. CASE UNCHANGED <<load_avg, xo_avgs, next>>
  BY <1>0, <1>3 DEF PublishedTrue
<1> QED
  BY <1>1, <1>2, <1>3 DEF LoadAvgNext, AiStart, AiMoved, AiLockAvg, AiAdd, kxo_ioctl,
     IoctlWord, IoctlReturns, ArmLoadavg, DelLoadavg, Tick, loadAvgVars, avgVars, handlerVars

(* The viewer shows each agent's average, hundredths included, modulo the  *)
(* sixteen of the word's four bits, however long searches and periods are. *)
THEOREM AveragesShown == LoadAvgSpec => []ShownTrue
<1>1. LoadAvgInit => ShownInv
  <2> SUFFICES ASSUME LoadAvgInit PROVE ShownInv
    OBVIOUS
  <2> USE LoadAvgAssumption
  <2>1. Packed(0) = 0
    <3>1. 0 \div FIXED_1 = 0 /\ 0 % FIXED_1 = 0
      OBVIOUS
    <3>2. (0 * 100) \div FIXED_1 = 0
      BY <3>1
    <3> QED
      BY <3>1, <3>2 DEF Packed, LOAD_INT, LOAD_FRAC
  <2>2. PublishedTrue
    BY <2>1, WordsFacts DEF LoadAvgInit, PublishedTrue
  <2> QED
    BY <2>2, AccountInit DEF ShownInv
<1>2. ShownInv /\ [LoadAvgNext]_loadAvgVars => ShownInv'
  BY AccountStep, PublishedTrueStep DEF ShownInv
<1>3. ShownInv => ShownTrue
  <2> SUFFICES ASSUME ShownInv, NEW k \in 1 .. 2 * N_GAMES, next = 0 \/ k < next
               PROVE  Shown(xo_avgs[Words[k]])
                        = <<LOAD_INT(load_avg[Words[k]]) % 16, LOAD_FRAC(load_avg[Words[k]])>>
    BY WordsFacts DEF ShownTrue
  <2>1. load_avg[Words[k]] \in Nat
    BY WordsFacts DEF ShownInv, AccountInv, AvgTypeOK, WordTypes
  <2>2. xo_avgs[Words[k]] = Packed(load_avg[Words[k]])
    BY DEF ShownInv, PublishedTrue
  <2> QED
    BY <2>1, <2>2, ShownPacked
<1> QED
  BY <1>1, <1>2, <1>3, PTL DEF LoadAvgSpec
=============================================================================
