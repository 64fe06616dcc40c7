----------------------------- MODULE EfEnv_proofs ---------------------------
(***************************************************************************)
(* Proofs about EfEnv: its types for any threads and faults, and that      *)
(* power fail safeguard keeps its promise when one thread at a time calls  *)
(* and the flash works.                                                    *)
(***************************************************************************)
EXTENDS EfEnv, TLAPS

-----------------------------------------------------------------------------
(* Sets of variables and contents of areas.                                *)

LEMMA DelIsEnv ==
  ASSUME NEW e \in Envs, NEW k \in Keys
  PROVE  del_env(e, k) \in Envs
<1>1. PICK K \in SUBSET Keys : e \in [K -> Values]  BY DEF Envs
<1>2. del_env(e, k) \in [K \ {k} -> Values]  BY <1>1 DEF del_env, Restrict
<1> QED  BY <1>1, <1>2 DEF Envs

LEMMA SetIsEnv ==
  ASSUME NEW e \in Envs, NEW k \in Keys, NEW v \in Values
  PROVE  ef_set_env(e, k, v) \in Envs
<1> DEFINE rest == del_env(e, k)
           more == [x \in DOMAIN rest \union {k} |-> IF x = k THEN v ELSE rest[x]]
<1>1. rest \in Envs  BY DelIsEnv
<1>2. PICK K \in SUBSET Keys : rest \in [K -> Values]  BY <1>1 DEF Envs
<1>3. more \in [K \union {k} -> Values]  BY <1>2
<1>4. more \in Envs  BY <1>2, <1>3 DEF Envs
<1> QED  BY <1>1, <1>4 DEF ef_set_env

LEMMA ContentsMade ==
  ASSUME NEW e \in Envs, NEW n \in 0..CountMod - 1
  PROVE  /\ Invalid \in Contents /\ SavedCache(e, n) \in Contents
         /\ ~Invalid.valid
         /\ SavedCache(e, n).valid /\ SavedCache(e, n).env = e
         /\ SavedCache(e, n).count = n
<1>1. Invalid \in Contents  BY DEF Contents
<1>2. SavedCache(e, n) \in Contents  BY DEF Contents
<1>3. ~Invalid.valid  BY DEF Invalid
<1>4. /\ SavedCache(e, n).valid /\ SavedCache(e, n).env = e
      /\ SavedCache(e, n).count = n
  BY DEF SavedCache
<1> QED  BY <1>1, <1>2, <1>3, <1>4

LEMMA ContentsRead ==
  ASSUME NEW c \in Contents
  PROVE  /\ c.valid \in BOOLEAN
         /\ c.valid => /\ c.env \in Envs /\ c.count \in 0..CountMod - 1
                       /\ c = SavedCache(c.env, c.count)
         /\ ~c.valid => c = Invalid
<1>1. CASE c = Invalid  BY <1>1 DEF Invalid
<1>2. CASE \E e \in Envs, n \in 0..CountMod - 1 : c = SavedCache(e, n)
  <2>1. PICK e \in Envs, n \in 0..CountMod - 1 : c = SavedCache(e, n)  BY <1>2
  <2> QED  BY <2>1, ContentsMade
<1> QED  BY <1>1, <1>2 DEF Contents

LEMMA WinnerIsValid ==
  ASSUME NEW f \in [Areas -> Contents], AnyValid(f)
  PROVE  Winner(f) \in Areas /\ f[Winner(f)].valid
BY ContentsRead DEF AnyValid, Winner, Areas

-----------------------------------------------------------------------------
(* Types, for any threads and faults.                                      *)

LEMMA SuccessTyped ==
  ASSUME TypeOK, NEW t \in Threads, Succeed(t)
  PROVE  /\ saved' \in Envs /\ report' \in {"ok", "failed"}
         /\ changed' \in BOOLEAN /\ init_ok' \in BOOLEAN
         /\ up' \in {"off", "booting", "running"}
         /\ pc' \in [Threads -> {"idle", "save", "erase", "write"}]
         /\ job' \in [Threads -> [area : Areas, size : Sizes, purpose : Purposes]]
<1>1. NoJob \in [area : Areas, size : Sizes, purpose : Purposes]
  BY DEF NoJob, Areas, Sizes, Purposes
<1>2. [job EXCEPT ![t].purpose = "last"]
        \in [Threads -> [area : Areas, size : Sizes, purpose : Purposes]]
  BY DEF TypeOK, Purposes
<1>3. CASE job[t].purpose = "first"  BY <1>2, <1>3 DEF Succeed, TypeOK
<1>4. CASE job[t].purpose # "first"  BY <1>1, <1>4 DEF Succeed, TypeOK
<1> QED  BY <1>3, <1>4

LEMMA FailureTyped ==
  ASSUME TypeOK, NEW t \in Threads, Fail(t)
  PROVE  /\ saved' \in Envs /\ report' \in {"ok", "failed"}
         /\ init_ok' \in BOOLEAN
         /\ up' \in {"off", "booting", "running"}
         /\ pc' \in [Threads -> {"idle", "save", "erase", "write"}]
         /\ job' \in [Threads -> [area : Areas, size : Sizes, purpose : Purposes]]
<1>1. NoJob \in [area : Areas, size : Sizes, purpose : Purposes]
  BY DEF NoJob, Areas, Sizes, Purposes
<1> QED  BY <1>1 DEF Fail, TypeOK

LEMMA TypeStep ==
  ASSUME TypeOK, [Next]_vars
  PROVE  TypeOK'
<1>0. /\ CountMod \in Nat \ {0} /\ MaxSaves \in Nat /\ Default \in Envs
      /\ Areas = {0, 1}
  BY EfEnvAssumption DEF Areas
<1>1. NoJob \in [area : Areas, size : Sizes, purpose : Purposes]
  BY DEF NoJob, Areas, Sizes, Purposes
<1>2. Invalid \in Contents  BY DEF Contents
<1>3. ASSUME NEW a, NEW c \in Contents
      PROVE  [flash EXCEPT ![a] = c] \in [Areas -> Contents]
  BY <1>3 DEF TypeOK
<1>4. ASSUME NEW t \in Threads, SetDefault(t)
      PROVE  /\ env' \in Envs /\ count' \in 0..CountMod - 1 /\ changed' \in BOOLEAN
             /\ pc' \in [Threads -> {"idle", "save", "erase", "write"}]
             /\ job' \in [Threads -> [area : Areas, size : Sizes, purpose : Purposes]]
  BY <1>0, <1>4 DEF SetDefault, TypeOK, Purposes
<1>5. CASE UNCHANGED vars
  BY <1>5 DEF vars, ram, hist, TypeOK
<1>6. CASE Load
  <2>1. Winner(flash) \in Areas /\ flash[Winner(flash)].valid
    BY <1>6, WinnerIsValid DEF Load, TypeOK
  <2>2. flash[Winner(flash)] \in Contents  BY <2>1 DEF TypeOK
  <2>3. /\ flash[Winner(flash)].env \in Envs
        /\ flash[Winner(flash)].count \in 0..CountMod - 1
    BY <2>1, <2>2, ContentsRead
  <2>4. Seal(flash[Winner(flash)].env, flash[Winner(flash)].count, Winner(flash))
          \in Seals
    BY <2>1, <2>3 DEF Seal, Seals
  <2>5. 1 - Winner(flash) \in Areas  BY <1>0, <2>1
  <2> QED  BY <1>6, <2>1, <2>3, <2>4, <2>5 DEF Load, TypeOK
<1>7. CASE PowerFail
  BY <1>1, <1>7 DEF PowerFail, hist, TypeOK
<1>8. ASSUME NEW t \in Threads, ThreadStep(t)
      PROVE  TypeOK'
  <2>1. CASE LoadDefault(t)
    BY <1>0, <1>4, <2>1 DEF LoadDefault, hist, TypeOK
  <2>2. CASE Set(t)
    BY <2>2, SetIsEnv DEF Set, hist, TypeOK
  <2>3. CASE Del(t)
    <3>1. \A k \in DOMAIN env : k \in Keys  BY DEF TypeOK, Envs
    <3> QED  BY <2>3, <3>1, DelIsEnv DEF Del, hist, TypeOK
  <2>4. CASE Save(t)
    BY <2>4 DEF Save, ram, hist, TypeOK, Purposes
  <2>5. CASE Reset(t)
    BY <1>4, <2>5 DEF Reset, hist, TypeOK
  <2>6. CASE SaveUnchanged(t)
    BY <2>6, SuccessTyped DEF SaveUnchanged, TypeOK
  <2>7. CASE Prepare(t)
    <3>1. (count + 1) % CountMod \in 0..CountMod - 1  BY <1>0 DEF TypeOK
    <3>2. Used(env) \in Sizes  BY DEF TypeOK, Sizes
    <3>3. /\ crc' \in Seals /\ count' \in 0..CountMod - 1 /\ cur' \in Areas
          /\ next' \in Areas /\ saves' \in 0..MaxSaves
      BY <1>0, <2>7, <3>1 DEF Prepare, TypeOK, Seal, Seals
    <3>4. /\ pc' \in [Threads -> {"idle", "save", "erase", "write"}]
          /\ job' \in [Threads -> [area : Areas, size : Sizes, purpose : Purposes]]
      BY <2>7, <3>2 DEF Prepare, TypeOK
    <3> QED  BY <2>7, <3>3, <3>4 DEF Prepare, TypeOK
  <2>8. CASE Erase(t)
    BY <1>2, <1>3, <2>8 DEF Erase, ram, hist, TypeOK
  <2>9. CASE EraseFails(t)
    BY <1>2, <1>3, <2>9, FailureTyped DEF EraseFails, TypeOK
  <2>10. CASE Write(t)
    <3>1. Written(t) \in Contents  BY <1>2, ContentsMade DEF Written, TypeOK
    <3> QED  BY <1>3, <2>10, <3>1, SuccessTyped DEF Write, TypeOK
  <2>11. CASE WriteFails(t)
    BY <1>2, <1>3, <2>11, FailureTyped DEF WriteFails, TypeOK
  <2> QED  BY <1>8, <2>1, <2>2, <2>3, <2>4, <2>5, <2>6, <2>7, <2>8, <2>9, <2>10,
              <2>11 DEF ThreadStep
<1> QED  BY <1>5, <1>6, <1>7, <1>8 DEF Next

LEMMA TypeInit == Init => TypeOK
<1>1. NoJob \in [area : Areas, size : Sizes, purpose : Purposes]
  BY DEF NoJob, Areas, Sizes, Purposes
<1>2. Invalid \in Contents  BY DEF Contents
<1>3. /\ 0 \in 0..CountMod - 1 /\ 0 \in 0..MaxSaves /\ 0 \in Areas
      /\ Default \in Envs
  BY EfEnvAssumption DEF Areas
<1>4. Init => crc \in Seals  BY <1>3 DEF Init, Seal, Seals
<1> QED  BY <1>1, <1>2, <1>3, <1>4 DEF Init, TypeOK

\* Every variable of the cache, the areas and the threads keeps its type; in
\* particular the count stays an unsigned number of its width and an area
\* never holds anything but an invalid image or a whole cache.
THEOREM TypeCorrect == Spec => []TypeOK
<1> QED  BY TypeInit, TypeStep, PTL DEF Spec

-----------------------------------------------------------------------------
(* One caller at a time and flash that works.                              *)

LEMMA WinnerNewest ==
  ASSUME NEW f \in [Areas -> Contents], NEW a \in Areas, f[a].valid,
         \A b \in Areas : f[b].valid => f[b].count \in Nat \ {0},
         f[1 - a].valid => f[a].count > f[1 - a].count
  PROVE  Winner(f) = a
BY DEF Winner, Areas

LEMMA WinnerOnly ==
  ASSUME NEW f \in [Areas -> Contents], NEW a \in Areas, f[a].valid,
         ~f[1 - a].valid
  PROVE  Winner(f) = a
BY DEF Winner, Areas

LEMMA SerialInit == Serialised /\ Init => SerialInv
<1> SUFFICES ASSUME Serialised, Init  PROVE SerialInv
  OBVIOUS
<1>1. TypeOK  BY TypeInit
<1>2. \A a \in Areas : ~flash[a].valid  BY DEF Init, Invalid
<1>3. Counted  BY <1>2 DEF Init, Counted
<1>4. Starting  BY DEF Init, Starting
<1>5. \A t \in Threads : Phase(t)  BY DEF Init, Phase
<1> QED  BY <1>1, <1>3, <1>4, <1>5 DEF Init, SerialInv

\* What holds of numbers and areas wherever the invariant does.
LEMMA SerialFacts ==
  ASSUME Serialised, SerialInv
  PROVE  /\ Areas = {0, 1} /\ cur \in Areas /\ 1 - cur \in Areas
         /\ flash \in [Areas -> Contents]
         /\ \A a \in Areas : flash[a].valid \in BOOLEAN
         /\ \A a \in Areas : flash[a].valid =>
              /\ flash[a].count \in Nat \ {0} /\ flash[a].count <= saves
              /\ flash[a] = SavedCache(flash[a].env, flash[a].count)
         /\ count \in Nat /\ count <= saves
         /\ saves \in Nat /\ saves <= MaxSaves
         /\ MaxSaves \in Nat /\ CountMod \in Nat \ {0} /\ MaxSaves < CountMod
<1>1. Areas = {0, 1}  BY DEF Areas
<1>2. cur \in Areas /\ flash \in [Areas -> Contents] /\ saves \in 0..MaxSaves
      /\ count \in 0..CountMod - 1
  BY DEF SerialInv, TypeOK
<1>3. MaxSaves \in Nat /\ CountMod \in Nat \ {0} /\ MaxSaves < CountMod
  BY EfEnvAssumption DEF Serialised
<1>4. ASSUME NEW a \in Areas
      PROVE  /\ flash[a].valid \in BOOLEAN
             /\ flash[a].valid =>
                  /\ flash[a].count \in Nat \ {0} /\ flash[a].count <= saves
                  /\ flash[a] = SavedCache(flash[a].env, flash[a].count)
  <2>1. flash[a] \in Contents  BY <1>2
  <2>2. flash[a].valid => flash[a].count \in 1..saves  BY DEF SerialInv, Counted
  <2> QED  BY <1>2, <2>1, <2>2, ContentsRead
<1>5. count <= saves  BY DEF SerialInv, Counted
<1> QED  BY <1>1, <1>2, <1>3, <1>4, <1>5

LEMMA SerialLoad ==
  ASSUME Serialised, SerialInv, Load, TypeOK'
  PROVE  SerialInv'
<1> DEFINE a == Winner(flash)
<1>1. a \in Areas /\ flash[a].valid
  BY SerialFacts, WinnerIsValid DEF Load
<1>2. flash' = flash /\ saves' = saves /\ cur' = a /\ next' = 1 - a
      /\ env' = flash[a].env /\ saved' = flash[a].env /\ count' = flash[a].count
      /\ up' = "running" /\ init_ok' = TRUE /\ report' = "ok" /\ pc' = pc
  BY DEF Load
<1>3. \A t \in Threads : pc[t] = "idle"  BY DEF Load, SerialInv, Starting
<1>4. Counted'  BY <1>1, <1>2, SerialFacts DEF SerialInv, Counted
<1>5. Starting'  BY <1>2 DEF Starting
<1>6. Synced'  BY <1>1, <1>2 DEF Synced
<1>7. \A t \in Threads : Phase(t)'  BY <1>2, <1>3, <1>6 DEF Phase
<1> QED  BY <1>2, <1>4, <1>5, <1>7 DEF SerialInv

LEMMA SerialPowerFail ==
  ASSUME Serialised, SerialInv, PowerFail, TypeOK'
  PROVE  SerialInv'
<1>1. Counted'  BY DEF SerialInv, Counted, PowerFail, hist
<1>2. Starting'  BY DEF Starting, PowerFail
<1>3. \A t \in Threads : Phase(t)'  BY DEF Phase, PowerFail
<1> QED  BY <1>1, <1>2, <1>3 DEF SerialInv, PowerFail, hist

LEMMA SerialCalls ==
  ASSUME Serialised, SerialInv, TypeOK', NEW t \in Threads, Threads = {t},
         LoadDefault(t) \/ Set(t) \/ Del(t) \/ Save(t) \/ Reset(t)
  PROVE  SerialInv'
<1>0. up = "running" /\ pc[t] = "idle" => Synced
  BY DEF SerialInv, Phase
<1>1. CASE LoadDefault(t)
  <2>1. flash' = flash /\ saves' = saves /\ ~AnyValid(flash) /\ up' = "booting"
        /\ pc'[t] = "save" /\ job'[t].purpose = "first" /\ report' = report
        /\ env' = Default /\ count' = 0 /\ changed' = TRUE /\ next' = 1 - cur'
        /\ init_ok' = FALSE
    BY <1>1 DEF LoadDefault, SetDefault, hist, SerialInv, TypeOK
  <2>2. Counted'  BY <2>1, SerialFacts DEF SerialInv, Counted
  <2>3. Starting'  BY <2>1 DEF Starting, AnyValid, Areas
  <2>4. Phase(t)'  BY <2>1 DEF Phase, Resetting, AnyValid
  <2> QED  BY <2>1, <2>2, <2>3, <2>4 DEF SerialInv
<1>2. CASE Set(t)
  <2>1. up = "running" /\ pc[t] = "idle"  BY <1>2 DEF Set, MayCall
  <2>2. Synced'  BY <1>0, <1>2, <2>1 DEF Set, Synced, hist
  <2>3. Counted' /\ Starting' /\ report' = "ok"
    BY <1>2 DEF Set, SerialInv, Counted, Starting, hist
  <2>4. Phase(t)'  BY <1>2, <2>1, <2>2 DEF Set, Phase
  <2> QED  BY <2>3, <2>4 DEF SerialInv
<1>3. CASE Del(t)
  <2>1. up = "running" /\ pc[t] = "idle"  BY <1>3 DEF Del, MayCall
  <2>2. Synced'  BY <1>0, <1>3, <2>1 DEF Del, Synced, hist
  <2>3. Counted' /\ Starting' /\ report' = "ok"
    BY <1>3 DEF Del, SerialInv, Counted, Starting, hist
  <2>4. Phase(t)'  BY <1>3, <2>1, <2>2 DEF Del, Phase
  <2> QED  BY <2>3, <2>4 DEF SerialInv
<1>4. CASE Save(t)
  <2>1. up = "running" /\ pc[t] = "idle" /\ up' = up
        /\ pc'[t] = "save" /\ job'[t].purpose = "plain"
    BY <1>4 DEF Save, MayCall, SerialInv, TypeOK
  <2>2. Synced'  BY <1>0, <1>4, <2>1 DEF Save, Synced, hist, ram
  <2>3. Counted' /\ report' = "ok"
    BY <1>4 DEF Save, SerialInv, Counted, hist, ram
  <2>4. Starting'  BY <1>4, <2>1 DEF Save, SerialInv, Starting, hist, ram
  <2>5. Phase(t)'  BY <2>1, <2>2 DEF Phase
  <2> QED  BY <2>3, <2>4, <2>5 DEF SerialInv
<1>5. CASE Reset(t)
  <2>1. up = "running" /\ pc[t] = "idle" /\ up' = up /\ flash' = flash /\ cur' = cur
        /\ pc'[t] = "save" /\ job'[t].purpose = "first" /\ report' = report
        /\ env' = Default /\ count' = 0 /\ changed' = TRUE /\ saves' = saves
    BY <1>5 DEF Reset, SetDefault, MayCall, hist, SerialInv, TypeOK
  <2>2. Counted'  BY <2>1, SerialFacts DEF SerialInv, Counted
  <2>3. Starting'  BY <1>5, <2>1 DEF Reset, SerialInv, Starting
  <2>4. Phase(t)'  BY <1>0, <2>1 DEF Phase, Resetting, Synced
  <2> QED  BY <2>1, <2>2, <2>3, <2>4 DEF SerialInv
<1> QED  BY <1>1, <1>2, <1>3, <1>4, <1>5

LEMMA SerialPrepare ==
  ASSUME Serialised, SerialInv, TypeOK', NEW t \in Threads, Threads = {t},
         Prepare(t)
  PROVE  SerialInv'
<1>1. /\ flash' = flash /\ saves' = saves + 1 /\ up' = up /\ env' = env
      /\ cur' = next /\ next' = cur /\ count' = (count + 1) % CountMod
      /\ pc[t] = "save" /\ pc'[t] = "erase" /\ changed /\ changed' = TRUE
      /\ job'[t].purpose = job[t].purpose /\ job'[t].area = next
      /\ job'[t].size = Used(env) /\ report' = report
      /\ crc' = Seal(env, count', next) /\ saved' = saved /\ init_ok' = init_ok
      /\ saves < MaxSaves
  BY DEF Prepare, SerialInv, TypeOK
<1>2. count' = count + 1
  <2>1. count + 1 \in 0..CountMod - 1  BY <1>1, SerialFacts
  <2>2. (count + 1) % CountMod = count + 1  BY <2>1, SerialFacts
  <2> QED  BY <1>1, <2>2
<1>3. up # "off" /\ next = 1 - cur  BY <1>1 DEF SerialInv, Starting
<1>4. Counted'  BY <1>1, <1>2, SerialFacts DEF Counted
<1>5. Starting'
  <2>1. cur = 1 - next  BY <1>3, SerialFacts
  <2> QED  BY <1>1, <1>3, <2>1 DEF SerialInv, Starting
<1>6. Sealed(t)'  BY <1>1 DEF Sealed
<1>7. Phase(t)  BY DEF SerialInv
<1>8. job[t].purpose = "plain" => Phase(t)'
  <2>0. SUFFICES ASSUME job[t].purpose = "plain" PROVE Phase(t)'
    OBVIOUS
  <2>1. Synced /\ up = "running"  BY <1>1, <1>7, <2>0 DEF Phase
  <2>2. OtherWins' /\ count' = flash'[next'].count + 1
    BY <1>1, <1>2, <2>1 DEF Synced, OtherWins
  <2> QED  BY <1>1, <1>6, <2>0, <2>1, <2>2 DEF Phase
<1>9. job[t].purpose = "first" => Phase(t)'
  <2>0. SUFFICES ASSUME job[t].purpose = "first" PROVE Phase(t)'
    OBVIOUS
  <2>1. /\ Resetting /\ count = 0
        /\ IF up = "running" THEN flash[cur].valid /\ Winner(flash) = cur
                              ELSE ~AnyValid(flash)
    BY <1>1, <1>7, <2>0 DEF Phase
  <2> QED  BY <1>1, <1>2, <1>6, <2>0, <2>1 DEF Phase, Resetting, OtherWins, AnyValid
<1>10. job[t].purpose = "last" => Phase(t)'
  <2>0. SUFFICES ASSUME job[t].purpose = "last" PROVE Phase(t)'
    OBVIOUS
  <2>1. Resetting /\ count = 1 /\ flash[cur] = SavedCache(Default, 1)
    BY <1>1, <1>7, <2>0 DEF Phase
  <2> QED  BY <1>1, <1>2, <1>6, <2>0, <2>1 DEF Phase, Resetting
<1>11. job[t].purpose \in Purposes  BY DEF SerialInv, TypeOK
<1>12. Phase(t)'  BY <1>8, <1>9, <1>10, <1>11 DEF Purposes
<1> QED  BY <1>1, <1>4, <1>5, <1>12 DEF SerialInv

LEMMA SerialErase ==
  ASSUME Serialised, SerialInv, TypeOK', NEW t \in Threads, Threads = {t},
         Erase(t)
  PROVE  SerialInv'
<1>1. Phase(t) /\ pc[t] = "erase"  BY DEF SerialInv, Erase
<1>2. Sealed(t)  BY <1>1 DEF Phase
<1>3. up # "off" /\ next = 1 - cur  BY <1>1 DEF SerialInv, Starting
<1>4. /\ flash' = [flash EXCEPT ![cur] = Invalid] /\ pc'[t] = "write"
      /\ UNCHANGED <<env, count, crc, cur, next, changed, init_ok, up, job, saved,
                     report, saves>>
  BY <1>2 DEF Erase, Sealed, SerialInv, TypeOK, ram, hist
<1>5. /\ ~flash'[cur].valid /\ flash'[next] = flash[next]
      /\ flash' \in [Areas -> Contents] /\ next \in Areas
  <2>1. ~Invalid.valid  BY DEF Invalid
  <2>2. flash' \in [Areas -> Contents]  BY DEF TypeOK
  <2> QED  BY <1>3, <1>4, <2>1, <2>2, SerialFacts
<1>6. Counted'  BY <1>3, <1>4, <1>5, SerialFacts DEF SerialInv, Counted
<1>7. Starting'  BY <1>1, <1>3, <1>4, <1>5, SerialFacts DEF SerialInv, Starting
<1>8. Sealed(t)'  BY <1>2, <1>4, <1>5 DEF Sealed
<1>9. OtherWins => OtherWins'
  <2> SUFFICES ASSUME OtherWins PROVE OtherWins'
    OBVIOUS
  <2>1. flash'[next].valid /\ ~flash'[1 - next].valid
    BY <1>3, <1>5, SerialFacts DEF OtherWins
  <2>2. Winner(flash') = next  BY <1>5, <2>1, WinnerOnly
  <2> QED  BY <1>4, <2>1, <2>2 DEF OtherWins
<1>10. ~AnyValid(flash) => ~AnyValid(flash')
  BY <1>3, <1>5, SerialFacts DEF AnyValid
<1>11. Phase(t)'
  BY <1>1, <1>4, <1>5, <1>8, <1>9, <1>10 DEF Phase, Resetting
<1> QED  BY <1>4, <1>6, <1>7, <1>11 DEF SerialInv

LEMMA SerialWrite ==
  ASSUME Serialised, SerialInv, TypeOK', NEW t \in Threads, Threads = {t},
         Write(t)
  PROVE  SerialInv'
<1>1. Phase(t) /\ pc[t] = "write"  BY DEF SerialInv, Write
<1>2. Sealed(t) /\ ~flash[cur].valid  BY <1>1 DEF Phase, Sealed
<1>3. up # "off" /\ next = 1 - cur  BY <1>1 DEF SerialInv, Starting
<1>4. Written(t) = SavedCache(env, count)  BY <1>2 DEF Written, Sealed
<1>5. /\ flash' = [flash EXCEPT ![cur] = SavedCache(env, count)]
      /\ Succeed(t)
      /\ UNCHANGED <<env, count, crc, cur, next, saves>>
  BY <1>2, <1>4 DEF Write, Sealed
<1>6. /\ flash'[cur].valid /\ flash'[cur].env = env /\ flash'[cur].count = count
      /\ flash'[cur] = SavedCache(env, count)
      /\ flash'[next] = flash[next] /\ flash' \in [Areas -> Contents]
      /\ next \in Areas
  <2>1. flash'[cur] = SavedCache(env, count)  BY <1>5, SerialFacts
  <2>2. flash' \in [Areas -> Contents]  BY DEF TypeOK
  <2> QED  BY <1>3, <1>5, <2>1, <2>2, SerialFacts DEF SavedCache
<1>7. count \in Nat \ {0}
  <2>1. OtherWins => flash[next].count \in Nat
    BY <1>3, SerialFacts DEF OtherWins
  <2> QED  BY <1>1, <2>1 DEF Phase
<1>8. Counted'
  BY <1>3, <1>5, <1>6, <1>7, SerialFacts DEF SerialInv, Counted
<1>9. CASE job[t].purpose = "plain"
  <2>1. /\ up = "running" /\ OtherWins /\ count = flash[next].count + 1
    BY <1>1, <1>9 DEF Phase
  <2>2. /\ saved' = env /\ report' = "ok" /\ changed' = FALSE /\ pc'[t] = "idle"
        /\ up' = "running" /\ init_ok' = TRUE
    BY <1>5, <1>9, <2>1 DEF Succeed, SerialInv, Starting, TypeOK
  <2>3. flash[next].count \in Nat  BY <1>3, <2>1, SerialFacts DEF OtherWins
  <2>4. Winner(flash') = cur
    <3>1. \A b \in Areas : flash'[b].valid => flash'[b].count \in Nat \ {0}
      BY <1>3, <1>6, <1>7, SerialFacts
    <3>2. flash'[cur].count > flash'[1 - cur].count
      BY <1>3, <1>6, <2>1, <2>3
    <3> QED  BY <1>6, <3>1, <3>2, SerialFacts, WinnerNewest
  <2>5. Synced'  BY <1>5, <1>6, <2>2, <2>4 DEF Synced
  <2>6. Starting'  BY <1>3, <1>5, <2>2 DEF Starting
  <2> QED  BY <1>8, <2>2, <2>5, <2>6 DEF SerialInv, Phase
<1>10. CASE job[t].purpose = "first"
  <2>1. /\ Resetting /\ count = 1
        /\ IF up = "running" THEN OtherWins ELSE ~AnyValid(flash)
    BY <1>1, <1>10 DEF Phase
  <2>2. /\ report' = "ok" /\ changed' = TRUE /\ pc'[t] = "save"
        /\ job'[t].purpose = "last" /\ up' = up /\ init_ok' = init_ok
    BY <1>5, <1>10 DEF Succeed, SerialInv, TypeOK
  <2>3. Starting'
    BY <1>3, <1>5, <1>6, <2>1, <2>2, SerialFacts
    DEF SerialInv, Starting, Resetting, AnyValid
  <2>4. Phase(t)'  BY <1>5, <1>6, <2>1, <2>2 DEF Phase, Resetting
  <2> QED  BY <1>8, <2>2, <2>3, <2>4 DEF SerialInv
<1>11. CASE job[t].purpose = "last"
  <2>1. Resetting /\ count = 2 /\ flash[next] = SavedCache(Default, 1)
    BY <1>1, <1>11 DEF Phase
  <2>2. /\ saved' = env /\ report' = "ok" /\ changed' = FALSE /\ pc'[t] = "idle"
        /\ up' = "running" /\ init_ok' = TRUE
    BY <1>3, <1>5, <1>11 DEF Succeed, SerialInv, Starting, TypeOK
  <2>3. Winner(flash') = cur
    <3>1. \A b \in Areas : flash'[b].valid => flash'[b].count \in Nat \ {0}
      BY <1>3, <1>6, <1>7, SerialFacts
    <3>2. flash'[1 - cur].count = 1  BY <1>3, <1>6, <2>1 DEF SavedCache
    <3>3. flash'[cur].count > flash'[1 - cur].count  BY <1>6, <2>1, <3>2
    <3> QED  BY <1>6, <3>1, <3>3, SerialFacts, WinnerNewest
  <2>4. Synced'  BY <1>5, <1>6, <2>2, <2>3 DEF Synced
  <2>5. Starting'  BY <1>3, <1>5, <2>2 DEF Starting
  <2> QED  BY <1>8, <2>2, <2>4, <2>5 DEF SerialInv, Phase
<1>12. job[t].purpose \in Purposes  BY DEF SerialInv, TypeOK
<1> QED  BY <1>9, <1>10, <1>11, <1>12 DEF Purposes

LEMMA SerialUnchanged ==
  ASSUME Serialised, SerialInv, TypeOK', NEW t \in Threads, Threads = {t},
         SaveUnchanged(t)
  PROVE  SerialInv'
<1>1. Phase(t) /\ pc[t] = "save" /\ ~changed /\ Succeed(t)
      /\ UNCHANGED <<flash, env, count, crc, cur, next, saves>>
  BY DEF SerialInv, SaveUnchanged
<1>2. job[t].purpose = "plain" /\ Synced /\ up = "running"
  BY <1>1 DEF Phase, Resetting
<1>3. /\ saved' = env /\ report' = "ok" /\ changed' = FALSE /\ pc'[t] = "idle"
      /\ up' = "running" /\ init_ok' = TRUE
  BY <1>1, <1>2 DEF Succeed, SerialInv, Starting, TypeOK
<1>4. Synced'  BY <1>1, <1>2, <1>3 DEF Synced
<1>5. Counted'  BY <1>1 DEF SerialInv, Counted
<1>6. Starting'  BY <1>1, <1>2, <1>3 DEF SerialInv, Starting
<1> QED  BY <1>3, <1>4, <1>5, <1>6 DEF SerialInv, Phase

LEMMA SerialStep ==
  ASSUME Serialised, SerialInv, [Next]_vars
  PROVE  SerialInv'
<1>1. TypeOK'  BY TypeStep DEF SerialInv
<1>2. CASE UNCHANGED vars
  <2>1. Counted' /\ Starting' /\ report' = "ok"
    BY <1>2 DEF SerialInv, Counted, Starting, vars, ram, hist
  <2>2. ASSUME NEW t \in Threads  PROVE Phase(t)'
    BY <1>2 DEF SerialInv, Phase, Synced, Resetting, Sealed, OtherWins, vars, ram, hist
  <2> QED  BY <1>1, <2>1, <2>2 DEF SerialInv
<1>3. CASE Load  BY <1>1, <1>3, SerialLoad
<1>4. CASE PowerFail  BY <1>1, <1>4, SerialPowerFail
<1>5. ASSUME NEW t \in Threads, ThreadStep(t)
      PROVE  SerialInv'
  <2>1. Threads = {t} /\ ~EraseFails(t) /\ ~WriteFails(t)
    BY DEF Serialised, EraseFails, WriteFails
  <2> QED  BY <1>1, <1>5, <2>1, SerialCalls, SerialUnchanged, SerialPrepare,
              SerialErase, SerialWrite DEF ThreadStep
<1> QED  BY <1>2, <1>3, <1>4, <1>5 DEF Next

\* The invariant of a serialised use: at every step of a save one area holds
\* what a restart has to find.
THEOREM SerialCorrect == Serialised => (Spec => []SerialInv)
<1> SUFFICES ASSUME Serialised  PROVE Spec => []SerialInv
  OBVIOUS
<1>1. Init => SerialInv  BY SerialInit
<1>2. SerialInv /\ [Next]_vars => SerialInv'  BY SerialStep
<1> QED  BY <1>1, <1>2, PTL DEF Spec

LEMMA GoodCopyState ==
  ASSUME Serialised, SerialInv
  PROVE  OneGoodCopy
<1> SUFFICES ASSUME init_ok  PROVE AnyValid(flash)
  BY DEF OneGoodCopy
<1>1. PICK t \in Threads : Threads = {t}  BY DEF Serialised
<1>2. Phase(t) /\ up = "running" /\ next = 1 - cur
  BY DEF SerialInv, Starting
<1>3. \E a \in Areas : flash[a].valid
  BY <1>2, SerialFacts DEF Phase, Synced, OtherWins, SavedCache
<1> QED  BY <1>3 DEF AnyValid, Areas

\* Once the device has started there is a valid area at every moment, whatever
\* step of a save or of resetenv the power may fail at (the two areas of power
\* fail safeguard mode, written in turn by ef_save_env).
THEOREM AlwaysOneGoodCopy == Serialised => (Spec => []OneGoodCopy)
<1> SUFFICES ASSUME Serialised  PROVE Spec => []OneGoodCopy
  OBVIOUS
<1>1. SerialInv => OneGoodCopy  BY GoodCopyState
<1>2. Spec => []SerialInv  BY SerialCorrect
<1> QED  BY <1>1, <1>2, PTL

LEMMA SurvivesState ==
  ASSUME Serialised, SerialInv
  PROVE  SavedSurvives
<1> SUFFICES ASSUME Quiet  PROVE Loaded(flash) = saved
  BY DEF SavedSurvives
<1>1. PICK t \in Threads : Threads = {t}  BY DEF Serialised
<1>2. Synced  BY <1>1 DEF Quiet, SerialInv, Phase
<1>3. AnyValid(flash)  BY <1>2, SerialFacts DEF AnyValid, Synced
<1> QED  BY <1>2, <1>3 DEF Loaded, Synced

\* Between calls a restart finds just the variables of the last save, the one
\* that returned EF_NO_ERR, however often the power failed before.
THEOREM SavesSurvive == Serialised => (Spec => []SavedSurvives)
<1> SUFFICES ASSUME Serialised  PROVE Spec => []SavedSurvives
  OBVIOUS
<1>1. SerialInv => SavedSurvives  BY SurvivesState
<1>2. Spec => []SerialInv  BY SerialCorrect
<1> QED  BY <1>1, <1>2, PTL

-----------------------------------------------------------------------------
(* The two areas implement EnvStore.                                       *)

LEMMA LoadedDefault ==
  ASSUME NEW f \in [Areas -> Contents],
         \A a \in Areas : f[a].valid => f[a].env = Default
  PROVE  Loaded(f) = Default
BY WinnerIsValid DEF Loaded

LEMMA LoadedFrom ==
  ASSUME NEW f \in [Areas -> Contents], NEW a \in Areas, f[a].valid, Winner(f) = a
  PROVE  Loaded(f) = f[a].env
<1>1. f[0].valid \/ f[1].valid  BY DEF Areas
<1> QED  BY <1>1 DEF Loaded, AnyValid

LEMMA StoreErase ==
  ASSUME Serialised, SerialInv, SerialInv', NEW t \in Threads, Erase(t)
  PROVE  [Store!Next]_(Store!vars)
<1>1. /\ Phase(t) /\ Phase(t)' /\ pc[t] = "erase" /\ up # "off"
      /\ env' = env /\ up' = up /\ cur' = cur /\ next' = next
      /\ job' = job /\ pc'[t] = "write"
  BY DEF SerialInv, Starting, TypeOK, Erase, ram, hist
<1>2. flash' = [flash EXCEPT ![cur] = Invalid] /\ next = 1 - cur
  BY <1>1 DEF Erase, Phase, Sealed, SerialInv, Starting
<1>3. flash'[next] = flash[next]  BY <1>2, SerialFacts
<1>4. CASE up = "booting"
  <2>1. Loaded(flash) = Default
    BY <1>4, SerialFacts, LoadedDefault DEF SerialInv, Starting
  <2>2. \A a \in Areas : flash'[a].valid => flash'[a].env = Default
    BY <1>1, <1>4 DEF SerialInv, Starting
  <2>3. Loaded(flash') = Default
    BY <2>2, LoadedDefault DEF SerialInv, TypeOK
  <2> QED  BY <1>1, <1>4, <2>1, <2>3 DEF Store!vars, View
<1>5. CASE up # "booting" /\ job[t].purpose # "last"
  <2>1. up = "running"  BY <1>1, <1>5 DEF SerialInv, TypeOK
  <2>2. OtherWins /\ OtherWins'  BY <1>1, <1>5, <2>1 DEF Phase
  <2>3. Loaded(flash) = flash[next].env
    BY <1>2, <2>2, SerialFacts, LoadedFrom DEF OtherWins
  <2>4. Loaded(flash') = flash'[next].env
    <3>1. flash'[next].valid /\ Winner(flash') = next  BY <1>1, <2>2 DEF OtherWins
    <3>2. flash' \in [Areas -> Contents]  BY DEF SerialInv, TypeOK
    <3> QED  BY <1>2, <3>1, <3>2, SerialFacts, LoadedFrom
  <2> QED  BY <1>1, <1>3, <2>1, <2>3, <2>4 DEF Store!vars, View
<1>6. CASE up # "booting" /\ job[t].purpose = "last"
  <2>1. up = "running"  BY <1>1, <1>6 DEF SerialInv, TypeOK
  <2>2. /\ env = Default /\ flash'[next] = SavedCache(Default, 1)
        /\ ~flash'[cur].valid
    BY <1>1, <1>3, <1>6 DEF Phase, Resetting, Sealed
  <2>3. /\ flash'[next].valid /\ flash'[next].env = Default
    BY <2>2 DEF SavedCache
  <2>4. next \in Areas /\ next = 1 - cur /\ cur \in Areas
        /\ flash' \in [Areas -> Contents]
    BY <1>2, SerialFacts DEF SerialInv, TypeOK
  <2>5. Winner(flash') = next
    <3>1. ~flash'[1 - next].valid  BY <2>2, <2>4, SerialFacts
    <3> QED  BY <2>3, <2>4, <3>1, WinnerOnly
  <2>7. Loaded(flash') = env  BY <2>2, <2>3, <2>4, <2>5, LoadedFrom
  <2> QED  BY <1>1, <2>1, <2>7 DEF Store!Next, Store!Commit, View
<1> QED  BY <1>4, <1>5, <1>6

LEMMA StoreWrite ==
  ASSUME Serialised, SerialInv, SerialInv', NEW t \in Threads, Threads = {t},
         Write(t)
  PROVE  [Store!Next]_(Store!vars)
<1>1. /\ Phase(t) /\ Phase(t)' /\ pc[t] = "write" /\ up # "off" /\ next = 1 - cur
      /\ env' = env /\ cur' = cur /\ next' = next /\ Succeed(t)
  BY DEF SerialInv, Starting, Write
<1>2. flash' = [flash EXCEPT ![cur] = SavedCache(env, count)]
  BY <1>1 DEF Write, Written, Phase, Sealed
<1>3. flash'[cur].env = env /\ flash'[next] = flash[next]
  BY <1>1, <1>2, SerialFacts DEF SavedCache
<1>4. CASE job[t].purpose = "first"
  <2>1. up' = up  BY <1>1, <1>4 DEF Succeed
  <2>2. CASE up = "booting"
    <3>1. Loaded(flash) = Default
      BY <2>2, SerialFacts, LoadedDefault DEF SerialInv, Starting
    <3>2. \A a \in Areas : flash'[a].valid => flash'[a].env = Default
      BY <2>1, <2>2 DEF SerialInv, Starting
    <3>3. Loaded(flash') = Default
      BY <3>2, LoadedDefault DEF SerialInv, TypeOK
    <3> QED  BY <2>1, <2>2, <3>1, <3>3 DEF Store!vars, View
  <2>3. CASE up # "booting"
    <3>1. up = "running" /\ OtherWins
      BY <1>1, <1>4, <2>3 DEF Phase, SerialInv, TypeOK
    <3>2. Loaded(flash) = flash[next].env
      BY <1>1, <3>1, SerialFacts, LoadedFrom DEF OtherWins
    <3>3. /\ next \in Areas /\ cur \in Areas /\ Areas = {cur, next}
          /\ flash' \in [Areas -> Contents]
      BY <1>1, SerialFacts DEF SerialInv, TypeOK
    <3>4. AnyValid(flash')
      <4>1. flash'[next].valid  BY <1>3, <3>1 DEF OtherWins
      <4> QED  BY <3>3, <4>1 DEF AnyValid, Areas
    <3>5. Winner(flash') \in {cur, next}  BY <3>3, <3>4, WinnerIsValid
    <3>6. Loaded(flash') \in {env, Loaded(flash)}
      BY <1>3, <3>2, <3>4, <3>5 DEF Loaded
    <3> QED
      BY <1>1, <2>1, <3>1, <3>6 DEF Store!Next, Store!Commit, Store!vars, View
  <2> QED  BY <2>2, <2>3
<1>5. CASE job[t].purpose # "first"
  <2>1. up' = "running" /\ pc'[t] = "idle" /\ saved' = env
    BY <1>1, <1>5 DEF Succeed, SerialInv, TypeOK
  <2>2. Synced'  BY <1>1, <2>1 DEF Phase
  <2>3. Loaded(flash') = env
    <3>1. /\ flash'[cur].valid /\ Winner(flash') = cur /\ flash'[cur].env = env
      BY <1>1, <1>3, <2>2 DEF Synced
    <3>2. flash' \in [Areas -> Contents]  BY DEF SerialInv, TypeOK
    <3> QED  BY <3>1, <3>2, SerialFacts, LoadedFrom
  <2>4. CASE up = "running"
    BY <1>1, <2>1, <2>3, <2>4 DEF Store!Next, Store!Commit, View
  <2>5. CASE up = "booting"
    <3>1. env = Default  BY <1>1, <1>5, <2>5 DEF Phase, Resetting
    <3>2. Loaded(flash) = Default
      BY <2>5, SerialFacts, LoadedDefault DEF SerialInv, Starting
    <3> QED  BY <1>1, <2>1, <2>3, <2>5, <3>1, <3>2 DEF Store!vars, View
  <2> QED  BY <1>1, <2>4, <2>5 DEF SerialInv, TypeOK
<1> QED  BY <1>4, <1>5

LEMMA StoreCalls ==
  ASSUME Serialised, SerialInv, SerialInv', NEW t \in Threads,
         \/ LoadDefault(t) \/ Set(t) \/ Del(t) \/ Save(t) \/ Reset(t)
         \/ SaveUnchanged(t) \/ Prepare(t)
  PROVE  [Store!Next]_(Store!vars)
<1>1. flash' = flash /\ env' \in Envs
  BY DEF LoadDefault, Set, Del, Save, Reset, SaveUnchanged, Prepare, SerialInv, TypeOK
<1>2. CASE LoadDefault(t)
  BY <1>1, <1>2 DEF LoadDefault, Store!vars, View
<1>3. CASE Set(t) \/ Del(t) \/ Reset(t)
  <2>1. up = "running" /\ up' = "running"  BY <1>3 DEF Set, Del, Reset, MayCall
  <2> QED  BY <1>1, <2>1 DEF Store!Next, Store!Change, View
<1>4. CASE Save(t) \/ Prepare(t)
  BY <1>1, <1>4 DEF Save, Prepare, ram, Store!vars, View
<1>5. CASE SaveUnchanged(t)
  <2>1. Phase(t) /\ pc[t] = "save" /\ ~changed /\ Succeed(t) /\ env' = env
    BY <1>5 DEF SaveUnchanged, SerialInv
  <2>2. up = "running" /\ job[t].purpose = "plain"  BY <2>1 DEF Phase, Resetting
  <2>3. up' = "running"  BY <2>1, <2>2 DEF Succeed
  <2> QED  BY <1>1, <2>1, <2>2, <2>3 DEF Store!vars, View
<1> QED  BY <1>2, <1>3, <1>4, <1>5

LEMMA StoreStep ==
  ASSUME Serialised, SerialInv, SerialInv', [Next]_vars
  PROVE  [Store!Next]_(Store!vars)
<1>1. CASE UNCHANGED vars
  BY <1>1 DEF vars, ram, Store!vars, View
<1>2. CASE Load
  <2>1. flash' = flash /\ up = "off" /\ up' = "running"
        /\ env' = Loaded(flash)
    BY <1>2 DEF Load, Loaded
  <2> QED  BY <2>1 DEF Store!vars, View
<1>3. CASE PowerFail
  BY <1>3 DEF PowerFail, Store!Next, Store!PowerFail, View
<1>4. ASSUME NEW t \in Threads, ThreadStep(t)
      PROVE  [Store!Next]_(Store!vars)
  <2>1. Threads = {t} /\ ~EraseFails(t) /\ ~WriteFails(t)
    BY DEF Serialised, EraseFails, WriteFails
  <2> QED  BY <1>4, <2>1, StoreCalls, StoreErase, StoreWrite DEF ThreadStep
<1> QED  BY <1>1, <1>2, <1>3, <1>4 DEF Next

LEMMA StoreInit == Init => Store!Init
<1> SUFFICES ASSUME Init  PROVE Store!Init
  OBVIOUS
<1>1. up = "off" /\ ~AnyValid(flash)  BY DEF Init, AnyValid, Invalid, Areas
<1> QED  BY <1>1 DEF Store!Init, View, Loaded

\* The two areas implement a store that replaces all variables at once: a
\* restart never finds a mixture of two saves, nor one older than the last.
THEOREM ImplementsStore == Serialised => (Spec => StoreSpec)
<1> SUFFICES ASSUME Serialised  PROVE Spec => StoreSpec
  OBVIOUS
<1>1. Init => Store!Init  BY StoreInit
<1>2. SerialInv /\ SerialInv' /\ [Next]_vars => [Store!Next]_(Store!vars)
  BY StoreStep
<1>3. Spec => []SerialInv  BY SerialCorrect
<1> QED  BY <1>1, <1>2, <1>3, PTL DEF Spec, StoreSpec, Store!Spec

-----------------------------------------------------------------------------
(* One caller at a time and flash that may fail.                           *)

LEMMA FaultInit == OneCaller /\ Init => FaultInv
<1> SUFFICES ASSUME OneCaller, Init  PROVE FaultInv
  OBVIOUS
<1>1. TypeOK  BY TypeInit
<1>2. \A a \in Areas : ~flash[a].valid  BY DEF Init, Invalid
<1>3. Counted /\ NoTie  BY <1>2 DEF Init, Counted, NoTie, Tied, Areas
<1> QED  BY <1>1, <1>3 DEF Init, FaultInv

\* What holds of numbers and areas wherever the invariant does.
LEMMA FaultFacts ==
  ASSUME OneCaller, FaultInv
  PROVE  /\ Areas = {0, 1} /\ cur \in Areas /\ 1 - cur \in Areas
         /\ flash \in [Areas -> Contents]
         /\ \A a \in Areas : flash[a].valid \in BOOLEAN
         /\ \A a \in Areas : flash[a].valid =>
              /\ flash[a].count \in Nat \ {0} /\ flash[a].count <= saves
         /\ count \in Nat /\ count <= saves /\ saves \in Nat
         /\ saves <= MaxSaves /\ MaxSaves < CountMod
         /\ MaxSaves \in Nat /\ CountMod \in Nat
<1>1. Areas = {0, 1}  BY DEF Areas
<1>2. cur \in Areas /\ flash \in [Areas -> Contents] /\ saves \in 0..MaxSaves
      /\ count \in 0..CountMod - 1
  BY DEF FaultInv, TypeOK
<1>3. MaxSaves \in Nat /\ CountMod \in Nat \ {0} /\ MaxSaves < CountMod
  BY EfEnvAssumption DEF OneCaller
<1>4. \A a \in Areas : flash[a].valid \in BOOLEAN  BY <1>2, ContentsRead
<1>5. \A a \in Areas : flash[a].valid => flash[a].count \in 1..saves
  BY DEF FaultInv, Counted
<1>7. count <= saves  BY DEF FaultInv, Counted
<1> QED  BY <1>1, <1>2, <1>3, <1>4, <1>5, <1>7

\* Of two areas the one with the bigger count is loaded: without a wrap there
\* is no count 0 that follows the biggest.
LEMMA WinnerBiggest ==
  ASSUME OneCaller, FaultInv, AnyValid(flash)
  PROVE  /\ Winner(flash) \in Areas /\ flash[Winner(flash)].valid
         /\ \A a \in Areas :
              flash[a].valid => flash[a].count <= flash[Winner(flash)].count
<1>1. Winner(flash) \in Areas /\ flash[Winner(flash)].valid
  BY FaultFacts, WinnerIsValid
<1>2. flash[0].valid /\ flash[1].valid =>
        flash[0].count \in Nat \ {0} /\ flash[1].count \in Nat \ {0}
  BY FaultFacts
<1>3. \A a \in Areas :
        flash[a].valid => flash[a].count <= flash[Winner(flash)].count
  BY <1>1, <1>2, FaultFacts DEF Winner
<1> QED  BY <1>1, <1>3

LEMMA FaultLoad ==
  ASSUME OneCaller, FaultInv, Load, TypeOK'
  PROVE  FaultInv'
<1> DEFINE a == Winner(flash)
<1>1. /\ a \in Areas /\ flash[a].valid /\ flash[a].count \in 1..saves
      /\ \A b \in Areas : flash[b].valid => flash[b].count <= flash[a].count
  BY WinnerBiggest, FaultFacts DEF Load
<1>2. flash' = flash /\ saves' = saves /\ cur' = a /\ next' = 1 - a
      /\ env' = flash[a].env /\ saved' = flash[a].env /\ count' = flash[a].count
      /\ up' = "running" /\ report' = "ok" /\ pc' = pc /\ up = "off"
      /\ restarted' = (restarted /\ Tied(flash))
  BY DEF Load
<1>3. \A t \in Threads : pc[t] = "idle"  BY <1>2 DEF FaultInv
<1>4. Counted'  BY <1>1, <1>2, FaultFacts DEF FaultInv, Counted
<1>5. NoTie'  BY <1>2 DEF FaultInv, NoTie, Tied
<1>6. \A t \in Threads : Ahead(t)'  BY <1>1, <1>2, <1>3 DEF Ahead
<1>7. \A t \in Threads : Marked(t)'  BY <1>2 DEF Marked, CurrentHolds
<1>8. \A t \in Threads : Restarting(t)'  BY <1>2, <1>3 DEF Restarting
<1> QED  BY <1>2, <1>3, <1>4, <1>5, <1>6, <1>7, <1>8 DEF FaultInv

LEMMA FaultPowerFail ==
  ASSUME OneCaller, FaultInv, PowerFail, TypeOK'
  PROVE  FaultInv'
<1>1. Counted' /\ NoTie'
  BY DEF FaultInv, Counted, NoTie, Tied, PowerFail, hist
<1>2. \A t \in Threads : Restarting(t)'  BY DEF Restarting, PowerFail
<1> QED  BY <1>1, <1>2 DEF FaultInv, PowerFail

LEMMA FaultCalls ==
  ASSUME OneCaller, FaultInv, TypeOK', NEW t \in Threads, Threads = {t},
         LoadDefault(t) \/ Set(t) \/ Del(t) \/ Save(t) \/ Reset(t)
  PROVE  FaultInv'
<1>1. CASE LoadDefault(t)
  <2>1. /\ flash' = flash /\ saves' = saves /\ ~AnyValid(flash)
        /\ up' = "booting" /\ pc'[t] = "save" /\ changed' = TRUE /\ count' = 0
        /\ next' = 1 - cur' /\ restarted' = FALSE
    BY <1>1 DEF LoadDefault, SetDefault, FaultInv, TypeOK
  <2>2. Counted' /\ NoTie'
    BY <2>1, FaultFacts DEF FaultInv, Counted, NoTie, Tied, AnyValid
  <2>3. Ahead(t)'  BY <2>1 DEF Ahead, AnyValid, Areas
  <2> QED  BY <2>1, <2>2, <2>3 DEF FaultInv
<1>2. CASE Set(t) \/ Del(t)
  <2>1. /\ up = "running" /\ up' = up /\ pc[t] = "idle" /\ pc' = pc
        /\ flash' = flash /\ count' = count /\ cur' = cur /\ next' = next
        /\ saves' = saves /\ saved' = saved /\ report' = report
        /\ restarted' = restarted
    BY <1>2 DEF Set, Del, MayCall, hist
  <2>2. ~changed' => ~changed /\ env' = env
    BY <1>2 DEF Set, Del, FaultInv, TypeOK
  <2>3. Counted' /\ NoTie'  BY <2>1 DEF FaultInv, Counted, NoTie, Tied
  <2>4. ~restarted => Ahead(t)'  BY <2>1 DEF FaultInv, Ahead
  <2>5. ~restarted => Marked(t)'
    BY <2>1, <2>2 DEF FaultInv, Marked, CurrentHolds
  <2>6. Restarting(t)'  BY <2>1 DEF Restarting
  <2> QED  BY <2>1, <2>3, <2>4, <2>5, <2>6 DEF FaultInv
<1>3. CASE Save(t)
  <2>1. /\ up = "running" /\ up' = up /\ pc[t] = "idle" /\ pc'[t] = "save"
        /\ job'[t].purpose = "plain"
        /\ UNCHANGED <<flash, ram, hist>>
    BY <1>3 DEF Save, MayCall, FaultInv, TypeOK
  <2>2. Counted' /\ NoTie'
    BY <2>1 DEF FaultInv, Counted, NoTie, Tied, ram, hist
  <2>3. ~restarted => Ahead(t)'  BY <2>1 DEF FaultInv, Ahead, ram
  <2>4. ~restarted => Marked(t)'
    BY <2>1 DEF FaultInv, Marked, CurrentHolds, ram, hist
  <2>5. Restarting(t)'  BY <2>1 DEF Restarting
  <2> QED  BY <2>1, <2>2, <2>3, <2>4, <2>5 DEF FaultInv, ram, hist
<1>4. CASE Reset(t)
  <2>1. /\ up = "running" /\ up' = up /\ pc'[t] = "save" /\ changed' = TRUE
        /\ job'[t].purpose = "first" /\ count' = 0 /\ restarted' = TRUE
        /\ UNCHANGED <<flash, cur, next, saves>>
    BY <1>4 DEF Reset, SetDefault, MayCall, FaultInv, TypeOK
  <2>2. Counted' /\ NoTie'
    BY <2>1, FaultFacts DEF FaultInv, Counted, NoTie
  <2>3. Restarting(t)'  BY <2>1 DEF Restarting
  <2> QED  BY <2>1, <2>2, <2>3 DEF FaultInv
<1> QED  BY <1>1, <1>2, <1>3, <1>4

LEMMA FaultPrepare ==
  ASSUME OneCaller, FaultInv, TypeOK', NEW t \in Threads, Threads = {t},
         Prepare(t)
  PROVE  FaultInv'
<1>1. /\ up # "off" /\ next = 1 - cur /\ pc[t] = "save"
      /\ ~restarted => Ahead(t)
      /\ restarted => Restarting(t)
  BY DEF FaultInv, Prepare
<1>2. count' = count + 1
  <2>1. count + 1 \in 0..CountMod - 1  BY FaultFacts DEF Prepare
  <2>2. (count + 1) % CountMod = count + 1  BY <2>1, FaultFacts
  <2> QED  BY <2>2 DEF Prepare
<1>3. /\ flash' = flash /\ up' = up /\ saves' = saves + 1 /\ cur' = next
      /\ next' = cur /\ env' = env /\ crc' = Seal(env, count', next)
      /\ pc'[t] = "erase" /\ job'[t].area = next /\ job'[t].size = Used(env)
      /\ job'[t].purpose = job[t].purpose
      /\ changed /\ changed' = changed /\ restarted' = restarted
  BY DEF Prepare, FaultInv, TypeOK
<1>4. Counted' /\ NoTie'
  BY <1>2, <1>3, FaultFacts DEF FaultInv, Counted, NoTie, Tied
<1>5. UnderSeal(t)'  BY <1>2, <1>3, FaultFacts DEF UnderSeal
<1>6. ~restarted => Ahead(t)'  BY <1>1, <1>2, <1>3, FaultFacts DEF Ahead
<1>7. restarted => Restarting(t)'
  BY <1>1, <1>2, <1>3, FaultFacts DEF Restarting
<1>8. Marked(t)'  BY <1>3 DEF Marked
<1>9. next' = 1 - cur'  BY <1>1, <1>3, FaultFacts
<1>10. up = "booting" => ~restarted  BY DEF FaultInv
<1> QED  BY <1>1, <1>3, <1>4, <1>5, <1>6, <1>7, <1>8, <1>9, <1>10 DEF FaultInv

\* What a step that harms the area being saved in leaves true.
LEMMA FaultHarm ==
  ASSUME OneCaller, FaultInv, NEW t \in Threads, pc[t] \in {"erase", "write"},
         flash' \in {flash, [flash EXCEPT ![job[t].area] = Invalid]},
         UNCHANGED <<count, saves, restarted>>
  PROVE  /\ up # "off" /\ next = 1 - cur /\ UnderSeal(t) /\ job[t].area = cur
         /\ ~restarted => Ahead(t)
         /\ restarted => Restarting(t)
         /\ \A a \in Areas : flash'[a].valid => flash[a].valid /\ flash'[a] = flash[a]
         /\ Counted' /\ NoTie'
<1>1. /\ up # "off" /\ next = 1 - cur /\ UnderSeal(t)
      /\ ~restarted => Ahead(t)
      /\ restarted => Restarting(t)
  BY DEF FaultInv
<1>2. job[t].area = cur  BY <1>1 DEF UnderSeal
<1>3. ~Invalid.valid  BY DEF Invalid
<1>4. \A a \in Areas : flash'[a].valid => flash[a].valid /\ flash'[a] = flash[a]
  BY <1>2, <1>3, FaultFacts
<1>5. Counted'  BY <1>4 DEF FaultInv, Counted
<1>6. NoTie'  BY <1>4 DEF FaultInv, NoTie, Tied, Areas
<1> QED  BY <1>1, <1>2, <1>4, <1>5, <1>6

LEMMA FaultErase ==
  ASSUME OneCaller, FaultInv, TypeOK', NEW t \in Threads, Threads = {t},
         Erase(t)
  PROVE  FaultInv'
<1>1. /\ pc[t] = "erase" /\ pc'[t] = "write" /\ up' = up /\ job' = job
      /\ flash' = [flash EXCEPT ![job[t].area] = Invalid]
      /\ UNCHANGED <<ram, hist>>
  BY DEF Erase, FaultInv, TypeOK
<1>2. UNCHANGED <<env, count, crc, cur, next, changed, saves, restarted>>
  BY <1>1 DEF ram, hist
<1>3. /\ up # "off" /\ next = 1 - cur /\ UnderSeal(t) /\ job[t].area = cur
      /\ ~restarted => Ahead(t)
      /\ restarted => Restarting(t)
      /\ \A a \in Areas : flash'[a].valid => flash[a].valid /\ flash'[a] = flash[a]
      /\ Counted' /\ NoTie'
  BY <1>1, <1>2, FaultHarm
<1>4. ~flash'[cur].valid  BY <1>1, <1>3, FaultFacts DEF Invalid
<1>5. next \in Areas  BY <1>3, FaultFacts
<1>6. UnderSeal(t)'  BY <1>1, <1>2, <1>3 DEF UnderSeal
<1>7. ~restarted => Ahead(t)'
  BY <1>1, <1>2, <1>3, <1>4, <1>5, FaultFacts DEF Ahead
<1>8. restarted => Restarting(t)'
  BY <1>1, <1>2, <1>3, <1>5, FaultFacts DEF Restarting
<1>9. Marked(t)'  BY <1>1 DEF Marked
<1>10. up = "booting" => changed /\ ~restarted  BY DEF FaultInv
<1> QED
  BY <1>1, <1>2, <1>3, <1>6, <1>7, <1>8, <1>9, <1>10 DEF FaultInv

LEMMA FaultFails ==
  ASSUME OneCaller, FaultInv, TypeOK', NEW t \in Threads, Threads = {t},
         EraseFails(t) \/ WriteFails(t)
  PROVE  FaultInv'
<1>1. /\ pc[t] \in {"erase", "write"} /\ Fail(t)
      /\ flash' \in {flash, [flash EXCEPT ![job[t].area] = Invalid]}
      /\ UNCHANGED <<env, count, crc, cur, next, saves, restarted>>
  BY DEF EraseFails, WriteFails
<1>2. pc'[t] = "idle" /\ up' = "running" /\ report' = "failed"
  BY <1>1 DEF Fail, FaultInv, TypeOK
<1>3. /\ up # "off" /\ next = 1 - cur /\ UnderSeal(t) /\ job[t].area = cur
      /\ ~restarted => Ahead(t)
      /\ \A a \in Areas : flash'[a].valid => flash[a].valid /\ flash'[a] = flash[a]
      /\ Counted' /\ NoTie'
  BY <1>1, FaultHarm
<1>4. ~changed' => ~flash'[cur].valid
  <2>1. changed  BY <1>3 DEF UnderSeal
  <2>2. EraseFails(t) => changed' = changed  BY DEF EraseFails
  <2>3. WriteFails(t) => flash' = [flash EXCEPT ![job[t].area] = Invalid]
    BY DEF WriteFails
  <2>4. WriteFails(t) => ~flash'[cur].valid
    BY <1>3, <2>3, FaultFacts DEF Invalid
  <2> QED  BY <2>1, <2>2, <2>4
<1>5. ~restarted => Ahead(t)'  BY <1>1, <1>2, <1>3 DEF Ahead
<1>6. Marked(t)'  BY <1>1, <1>2, <1>4 DEF Marked, CurrentHolds
<1>7. Restarting(t)'  BY <1>2 DEF Restarting
<1> QED  BY <1>1, <1>2, <1>3, <1>5, <1>6, <1>7 DEF FaultInv

LEMMA FaultUnchanged ==
  ASSUME OneCaller, FaultInv, TypeOK', NEW t \in Threads, Threads = {t},
         SaveUnchanged(t)
  PROVE  FaultInv'
<1>1. /\ pc[t] = "save" /\ ~changed /\ Succeed(t) /\ up = "running"
      /\ UNCHANGED <<flash, env, count, crc, cur, next, saves, restarted>>
  BY DEF SaveUnchanged, FaultInv, TypeOK
<1>2. /\ pc'[t] \in {"idle", "save"} /\ up' = "running" /\ saved' = env
      /\ job[t].purpose # "first" => pc'[t] = "idle"
  BY <1>1 DEF Succeed, FaultInv, TypeOK
<1>3. Counted' /\ NoTie'  BY <1>1 DEF FaultInv, Counted, NoTie, Tied
<1>4. ~restarted => Ahead(t)'  BY <1>1, <1>2 DEF FaultInv, Ahead
<1>5. ~restarted => CurrentHolds(env)  BY <1>1 DEF FaultInv, Marked
<1>6. ~restarted => CurrentHolds(env)' /\ CurrentHolds(saved)'
  BY <1>1, <1>2, <1>5 DEF CurrentHolds
<1>7. ~restarted => Marked(t)'  BY <1>6 DEF Marked
<1>8. restarted => Restarting(t)'
  <2> SUFFICES ASSUME restarted  PROVE Restarting(t)'
    OBVIOUS
  <2>1. Restarting(t)  BY DEF FaultInv
  <2>2. job[t].purpose = "plain"  BY <1>1, <2>1 DEF Restarting
  <2>3. pc'[t] = "idle"  BY <1>2, <2>2
  <2> QED  BY <2>3 DEF Restarting
<1> QED  BY <1>1, <1>2, <1>3, <1>4, <1>7, <1>8 DEF FaultInv

\* A write that nothing older can outlast: the count written is above the
\* other area's.
LEMMA FaultWriteNewest ==
  ASSUME OneCaller, FaultInv, TypeOK', NEW t \in Threads, Threads = {t},
         Write(t), next = 1 - cur,
         UNCHANGED <<env, count, crc, cur, next, saves>>,
         pc'[t] \in {"idle", "save"}, saved' = env,
         flash'[cur].valid, flash'[cur].env = env, flash'[cur].count = count,
         flash'[next] = flash[next], flash' \in [Areas -> Contents],
         count \in Nat \ {0},
         flash[next].valid => flash[next].count < count
  PROVE  Counted' /\ NoTie' /\ Ahead(t)' /\ Marked(t)'
<1>1. \A a \in Areas : flash'[a].valid =>
        /\ flash'[a].count \in Nat \ {0} /\ flash'[a].count <= count
        /\ a # cur => flash'[a].count < count
  <2>1. \A a \in Areas : a = cur \/ a = next  BY FaultFacts
  <2>2. next \in Areas  BY FaultFacts
  <2>3. flash'[next].valid =>
          flash'[next].count \in Nat \ {0} /\ flash'[next].count < count
    BY <2>2, FaultFacts
  <2> QED  BY <2>1, <2>3
<1>2. Counted'  BY <1>1, FaultFacts DEF Counted
<1>3. NoTie'  BY <1>1, FaultFacts DEF NoTie, Tied
<1>4. Ahead(t)'  BY <1>1 DEF Ahead
<1>5. Winner(flash') = cur  BY <1>1, FaultFacts, WinnerNewest
<1>6. CurrentHolds(env)' /\ CurrentHolds(saved)'  BY <1>5 DEF CurrentHolds
<1>7. Marked(t)'  BY <1>6 DEF Marked
<1> QED  BY <1>2, <1>3, <1>4, <1>7

LEMMA FaultWrite ==
  ASSUME OneCaller, FaultInv, TypeOK', NEW t \in Threads, Threads = {t},
         Write(t)
  PROVE  FaultInv'
<1>1. /\ up # "off" /\ next = 1 - cur /\ UnderSeal(t) /\ pc[t] = "write"
      /\ Succeed(t)
      /\ UNCHANGED <<env, count, crc, cur, next, saves>>
      /\ restarted' = (restarted /\ job[t].purpose # "last")
      /\ ~restarted => Ahead(t)
      /\ restarted => Restarting(t)
  BY DEF FaultInv, Write
<1>2. /\ pc'[t] \in {"idle", "save"} /\ saved' = env
      /\ up' \in {"running", up}
      /\ up' = "booting" => changed' /\ pc'[t] = "save"
      /\ pc'[t] = "save" => changed' /\ job[t].purpose = "first"
  BY <1>1 DEF Succeed, FaultInv, TypeOK
<1>3. /\ flash' = [flash EXCEPT ![cur] = SavedCache(env, count)]
      /\ count \in Nat \ {0}
  BY <1>1, FaultFacts DEF Write, Written, UnderSeal
<1>4. /\ flash'[cur] = SavedCache(env, count) /\ flash'[next] = flash[next]
      /\ flash' \in [Areas -> Contents]
  BY <1>1, <1>3, FaultFacts DEF TypeOK
<1>5. /\ flash'[cur].valid /\ flash'[cur].env = env /\ flash'[cur].count = count
  BY <1>4 DEF SavedCache
<1>6. up = "booting" => ~restarted  BY DEF FaultInv
<1>7. up' = "booting" => changed' /\ ~restarted' /\ pc'[t] # "idle"
  BY <1>1, <1>2, <1>6
<1>8. CASE restarted /\ job[t].purpose # "last"
  <2>1. restarted'  BY <1>1, <1>8
  <2>2. \A a \in Areas : flash'[a].valid => flash'[a].count \in 1..saves
    <3>1. \A a \in Areas : a = cur \/ a = next  BY <1>1, FaultFacts
    <3>2. flash'[cur].count \in 1..saves  BY <1>3, <1>5, FaultFacts
    <3>3. flash'[next].valid => flash'[next].count \in 1..saves
      BY <1>1, <1>4, FaultFacts
    <3> QED  BY <3>1, <3>2, <3>3
  <2>3. Counted' /\ NoTie'  BY <1>1, <2>1, <2>2, FaultFacts DEF Counted, NoTie
  <2>4. Restarting(t)'
    BY <1>1, <1>2, <1>5, FaultFacts DEF Restarting
  <2> QED  BY <1>1, <1>2, <1>7, <2>1, <2>3, <2>4 DEF FaultInv
<1>9. CASE ~(restarted /\ job[t].purpose # "last")
  <2>1. ~restarted'  BY <1>1, <1>9
  <2>2. flash[next].valid => flash[next].count < count
    BY <1>1, <1>9 DEF Ahead, Restarting
  <2>3. Counted' /\ NoTie' /\ Ahead(t)' /\ Marked(t)'
    BY <1>1, <1>2, <1>3, <1>4, <1>5, <2>2, FaultWriteNewest
  <2> QED  BY <1>1, <1>2, <1>7, <2>1, <2>3 DEF FaultInv
<1> QED  BY <1>8, <1>9

LEMMA FaultStep ==
  ASSUME OneCaller, FaultInv, [Next]_vars
  PROVE  FaultInv'
<1>1. TypeOK'  BY TypeStep DEF FaultInv
<1>2. CASE UNCHANGED vars
  <2>1. Counted' /\ NoTie'
    BY <1>2 DEF FaultInv, Counted, NoTie, Tied, vars, ram, hist
  <2>2. \A t \in Threads : up # "off" /\ ~restarted => Ahead(t)'
    BY <1>2 DEF FaultInv, Ahead, vars, ram, hist
  <2>3. \A t \in Threads : up = "running" /\ ~restarted => Marked(t)'
    BY <1>2 DEF FaultInv, Marked, CurrentHolds, vars, ram, hist
  <2>4. \A t \in Threads : pc[t] \in {"erase", "write"} => UnderSeal(t)'
    BY <1>2 DEF FaultInv, UnderSeal, vars, ram, hist
  <2>5. \A t \in Threads : restarted => Restarting(t)'
    BY <1>2 DEF FaultInv, Restarting, vars, ram, hist
  <2> QED
    BY <1>1, <1>2, <2>1, <2>2, <2>3, <2>4, <2>5 DEF FaultInv, vars, ram, hist
<1>3. CASE Load  BY <1>1, <1>3, FaultLoad
<1>4. CASE PowerFail  BY <1>1, <1>4, FaultPowerFail
<1>5. ASSUME NEW t \in Threads, ThreadStep(t)
      PROVE  FaultInv'
  <2>1. Threads = {t}  BY DEF OneCaller
  <2> QED  BY <1>1, <1>5, <2>1, FaultCalls, FaultUnchanged, FaultPrepare,
              FaultErase, FaultFails, FaultWrite DEF ThreadStep
<1> QED  BY <1>2, <1>3, <1>4, <1>5 DEF Next

\* The invariant of one caller on flash that may fail: what ef_save_env leaves
\* in RAM after an error keeps the counts apart and the areas in turn, and a
\* reset puts them in order again with its second save.
THEOREM FaultCorrect == OneCaller => (Spec => []FaultInv)
<1> SUFFICES ASSUME OneCaller  PROVE Spec => []FaultInv
  OBVIOUS
<1>1. Init => FaultInv  BY FaultInit
<1>2. FaultInv /\ [Next]_vars => FaultInv'  BY FaultStep
<1> QED  BY <1>1, <1>2, PTL DEF Spec

\* Whichever erases and writes fail, before or after they harm the area, and
\* wherever the power fails: two valid areas carry the same save count only
\* from a reset on (ef_env_set_default starts the count again) until both its
\* saves have succeeded or a restart has found different counts.
THEOREM NeverTied == OneCaller => (Spec => []NoTie)
<1> SUFFICES ASSUME OneCaller  PROVE Spec => []NoTie
  OBVIOUS
<1>1. FaultInv => NoTie  BY DEF FaultInv
<1>2. Spec => []FaultInv  BY FaultCorrect
<1> QED  BY <1>1, <1>2, PTL

LEMMA WrittenSurvivesState ==
  ASSUME OneCaller, FaultInv
  PROVE  SavedSurvivesIfWritten
<1> SUFFICES ASSUME Quiet, report = "ok", flash[cur].valid, ~restarted
             PROVE  Loaded(flash) = saved
  BY DEF SavedSurvivesIfWritten
<1>1. PICK t \in Threads : Threads = {t}  BY DEF OneCaller
<1>2. CurrentHolds(saved)  BY <1>1 DEF FaultInv, Marked, Quiet
<1>3. Winner(flash) = cur /\ flash[cur].env = saved  BY <1>2 DEF CurrentHolds
<1>4. AnyValid(flash)  BY FaultFacts DEF AnyValid
<1> QED  BY <1>3, <1>4 DEF Loaded

\* After any mixture of failed and successful saves: when ef_save_env reports
\* success and the area it takes for the current one is valid, a restart finds
\* just the variables of that save and never those of an older one.  A reset
\* that failed half way is the exception, until a reset succeeds or a restart
\* finds different counts: the other area may hold a bigger count of before.
THEOREM WrittenSavesSurvive == OneCaller => (Spec => []SavedSurvivesIfWritten)
<1> SUFFICES ASSUME OneCaller  PROVE Spec => []SavedSurvivesIfWritten
  OBVIOUS
<1>1. FaultInv => SavedSurvivesIfWritten  BY WrittenSurvivesState
<1>2. Spec => []FaultInv  BY FaultCorrect
<1> QED  BY <1>1, <1>2, PTL
=============================================================================
