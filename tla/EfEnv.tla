-------------------------------- MODULE EfEnv -------------------------------
(***************************************************************************)
(* The environment variables of EasyFlash in power fail safeguard mode     *)
(* (ef_env.c): a cache in RAM and two areas of flash that are written in   *)
(* turn, each with a save count and a CRC.  Threads set and delete         *)
(* variables and save the cache; the power may fail between any two steps, *)
(* and what is in RAM is then gone.                                        *)
(*                                                                         *)
(* A save is three steps, the work in RAM, the erase and the write: flash  *)
(* operations take milliseconds and another thread may run during them.    *)
(***************************************************************************)
EXTENDS FiniteSets, EnvCache

CONSTANTS
  Default,       \* default_env_set
  Threads,       \* the threads that use the variables
  Ops,           \* what they call: subset of "set", "del", "save", "reset"
  Faults,        \* the flash operations that may fail
  CountMod,      \* 2^32, the save count is an uint32_t
  MaxSaves       \* bound: saves that get as far as the flash

ASSUME EfEnvAssumption ==
  /\ Words \in [Values -> Nat] /\ Room \in Nat
  /\ Default \in Envs
  /\ Ops \subseteq {"set", "del", "save", "reset"}
  /\ Faults \subseteq {"erase", "write"}
  /\ CountMod \in Nat \ {0} /\ MaxSaves \in Nat

VARIABLES
  flash,    \* what ef_load_env finds in each area: Invalid or a saved cache
  env,      \* the cache: variables
  count,    \* the cache: save count
  crc,      \* the cache: what its CRC was last computed over
  cur,      \* cur_load_area_addr; the end address of the cache is in it
  next,     \* next_save_area_addr
  changed,  \* env_cache_changed
  init_ok,
  up,       \* "off", "booting" or "running"
  pc,       \* where each thread is: "idle", "save", "erase", "write"
  job,      \* what it saves: in which area, how much, what for
  saved,    \* history: the variables of the last save that reported success
  report,   \* history: the result of the last save
  saves,    \* saves that got as far as the flash
  restarted \* history: an area may hold a count of before a reset

ram  == <<env, count, crc, cur, next, changed, init_ok>>
hist == <<saved, report, saves, restarted>>
vars == <<flash, ram, up, pc, job, hist>>

Areas == {0, 1}

\* An area that is blank, half erased, half written or fails its CRC.
Invalid == [valid |-> FALSE]

SavedCache(e, n) == [valid |-> TRUE, env |-> e, count |-> n]
Contents == {Invalid} \union {SavedCache(e, n) : e \in Envs, n \in 0..CountMod - 1}

Seal(e, n, a) == [env |-> e, count |-> n, area |-> a]
Seals == [env : Envs, count : 0..CountMod - 1, area : Areas]

\* What a save is for: itself, or one of the two of ef_env_set_default.
Purposes == {"plain", "first", "last"}
Sizes == {0} \union {Used(e) : e \in Envs}
NoJob == [area |-> 0, size |-> 0, purpose |-> "plain"]

-----------------------------------------------------------------------------
(* Loading.                                                                *)

\* Fault variant: of two valid areas the first.
WinnerFirst(f) ==
  IF f[0].valid THEN 0 ELSE 1

\* Of two valid areas ef_load_env takes the one with the bigger count, but
\* 0 follows the biggest.  At least one area is valid.
Winner(f) ==
  IF /\ f[0].valid
     /\ f[1].valid => \/ f[0].count > f[1].count
                      \/ f[0].count = 0 /\ f[1].count = CountMod - 1
  THEN 0 ELSE 1

AnyValid(f) == f[0].valid \/ f[1].valid

\* Two valid areas with one save count.
Tied(f) == f[0].valid /\ f[1].valid /\ f[0].count = f[1].count

\* The variables after a restart.
Loaded(f) == IF AnyValid(f) THEN f[Winner(f)].env ELSE Default

Init ==
  /\ flash = [a \in Areas |-> Invalid]
  /\ env = Default /\ count = 0 /\ crc = Seal(Default, 0, 0)
  /\ cur = 0 /\ next = 0 /\ changed = FALSE /\ init_ok = FALSE
  /\ up = "off"
  /\ pc = [t \in Threads |-> "idle"] /\ job = [t \in Threads |-> NoJob]
  /\ saved = Default /\ report = "ok" /\ saves = 0 /\ restarted = FALSE

\* The part of ef_env_set_default under the lock: default variables, count 0;
\* t goes on with the first of two saves.
SetDefault(t) ==
  /\ env' = Default /\ count' = 0 /\ changed' = TRUE
  /\ pc' = [pc EXCEPT ![t] = "save"]
  /\ job' = [job EXCEPT ![t].purpose = "first"]

\* Fault variants: the area to save in next is the one after the loaded one;
\* it is the loaded one.
LoadNextPast ==
  /\ up = "off" /\ AnyValid(flash)
  /\ LET a == Winner(flash)
     IN  /\ env' = flash[a].env /\ count' = flash[a].count
         /\ crc' = Seal(flash[a].env, flash[a].count, a)
         /\ cur' = a /\ next' = a + 1
         /\ saved' = flash[a].env
  /\ changed' = FALSE /\ init_ok' = TRUE /\ up' = "running" /\ report' = "ok"
  /\ restarted' = (restarted /\ Tied(flash))
  /\ UNCHANGED <<flash, pc, job, saves>>

LoadNextSame ==
  /\ up = "off" /\ AnyValid(flash)
  /\ LET a == Winner(flash)
     IN  /\ env' = flash[a].env /\ count' = flash[a].count
         /\ crc' = Seal(flash[a].env, flash[a].count, a)
         /\ cur' = a /\ next' = a
         /\ saved' = flash[a].env
  /\ changed' = FALSE /\ init_ok' = TRUE /\ up' = "running" /\ report' = "ok"
  /\ restarted' = (restarted /\ Tied(flash))
  /\ UNCHANGED <<flash, pc, job, saves>>

\* Power on, easyflash_init, ef_load_env: a valid area is loaded, and the count
\* goes on from the bigger one.
Load ==
  /\ up = "off" /\ AnyValid(flash)
  /\ LET a == Winner(flash)
     IN  /\ env' = flash[a].env /\ count' = flash[a].count
         /\ crc' = Seal(flash[a].env, flash[a].count, a)
         /\ cur' = a /\ next' = 1 - a
         /\ saved' = flash[a].env
  /\ changed' = FALSE /\ init_ok' = TRUE /\ up' = "running" /\ report' = "ok"
  /\ restarted' = (restarted /\ Tied(flash))
  /\ UNCHANGED <<flash, pc, job, saves>>

\* ef_load_env without a valid area: the default set is made and saved before
\* ef_env_init returns.
LoadDefault(t) ==
  /\ up = "off" /\ ~AnyValid(flash)
  /\ cur' = 1 /\ next' = 0 /\ init_ok' = FALSE /\ up' = "booting"
  /\ SetDefault(t)
  /\ restarted' = FALSE
  /\ UNCHANGED <<flash, crc, saved, report, saves>>

\* The power fails.
PowerFail ==
  /\ up # "off"
  /\ up' = "off" /\ init_ok' = FALSE
  /\ pc' = [t \in Threads |-> "idle"] /\ job' = [t \in Threads |-> NoJob]
  /\ UNCHANGED <<flash, env, count, crc, cur, next, changed, hist>>

-----------------------------------------------------------------------------
(* What the threads call; t may when it is in no other call.               *)

MayCall(t, op) == up = "running" /\ pc[t] = "idle" /\ op \in Ops

\* ef_set_env with a value; the cache is marked when something was deleted or
\* written.
Set(t) ==
  /\ MayCall(t, "set") /\ init_ok
  /\ \E k \in Keys, v \in Values : env' = ef_set_env(env, k, v)
  /\ changed' = (changed \/ env' # env)
  /\ UNCHANGED <<flash, count, crc, cur, next, init_ok, up, pc, job, hist>>

\* ef_del_env, or ef_set_env without a value.
Del(t) ==
  /\ MayCall(t, "del") /\ init_ok
  /\ \E k \in DOMAIN env : env' = del_env(env, k)
  /\ changed' = TRUE
  /\ UNCHANGED <<flash, count, crc, cur, next, init_ok, up, pc, job, hist>>

\* ef_save_env; it does not look at init_ok.
Save(t) ==
  /\ MayCall(t, "save")
  /\ pc' = [pc EXCEPT ![t] = "save"]
  /\ job' = [job EXCEPT ![t].purpose = "plain"]
  /\ UNCHANGED <<flash, ram, up, hist>>

\* ef_env_set_default, called by resetenv.
Reset(t) ==
  /\ MayCall(t, "reset")
  /\ SetDefault(t)
  /\ restarted' = TRUE
  /\ UNCHANGED <<flash, crc, cur, next, init_ok, up, saved, report, saves>>

-----------------------------------------------------------------------------
(* ef_save_env, without the lock of the cache.                             *)

\* ef_save_env returns ok: the first save of ef_env_set_default marks the
\* cache again and is followed by the second; ef_env_init is over after it.
Succeed(t) ==
  /\ saved' = env /\ report' = "ok"
  /\ IF job[t].purpose = "first"
     THEN /\ changed' = TRUE
          /\ pc' = [pc EXCEPT ![t] = "save"]
          /\ job' = [job EXCEPT ![t].purpose = "last"]
          /\ UNCHANGED <<init_ok, up>>
     ELSE /\ changed' = FALSE
          /\ pc' = [pc EXCEPT ![t] = "idle"] /\ job' = [job EXCEPT ![t] = NoJob]
          /\ up' = "running" /\ init_ok' = (init_ok \/ up = "booting")

\* ef_save_env returns an error, and so does what called it.
Fail(t) ==
  /\ report' = "failed" /\ up' = "running"
  /\ pc' = [pc EXCEPT ![t] = "idle"] /\ job' = [job EXCEPT ![t] = NoJob]
  /\ UNCHANGED <<init_ok, saved>>

\* The cache has not changed: nothing to do, reported as success.
SaveUnchanged(t) ==
  /\ pc[t] = "save" /\ ~changed
  /\ Succeed(t)
  /\ UNCHANGED <<flash, env, count, crc, cur, next, saves, restarted>>

\* Fault variant: the save count is not counted up.
PrepareCountsNot(t) ==
  /\ pc[t] = "save" /\ changed /\ saves < MaxSaves
  /\ cur' = next /\ next' = cur
  /\ count' = count
  /\ crc' = Seal(env, count', next)
  /\ pc' = [pc EXCEPT ![t] = "erase"]
  /\ job' = [job EXCEPT ![t].area = next, ![t].size = Used(env)]
  /\ saves' = saves + 1
  /\ UNCHANGED <<flash, env, changed, init_ok, up, saved, report,
                 restarted>>

\* The areas change places, the end address moves to the new one, the count
\* goes up and the CRC is computed.
Prepare(t) ==
  /\ pc[t] = "save" /\ changed /\ saves < MaxSaves
  /\ cur' = next /\ next' = cur
  /\ count' = (count + 1) % CountMod
  /\ crc' = Seal(env, count', next)
  /\ pc' = [pc EXCEPT ![t] = "erase"]
  /\ job' = [job EXCEPT ![t].area = next, ![t].size = Used(env)]
  /\ saves' = saves + 1
  /\ UNCHANGED <<flash, env, changed, init_ok, up, saved, report,
                 restarted>>

\* ef_port_erase.
Erase(t) ==
  /\ pc[t] = "erase"
  /\ flash' = [flash EXCEPT ![job[t].area] = Invalid]
  /\ pc' = [pc EXCEPT ![t] = "write"]
  /\ UNCHANGED <<ram, up, job, hist>>

\* Fault variant: after an erase that failed the cache counts as saved.
EraseFailsQuietly(t) ==
  /\ pc[t] = "erase" /\ "erase" \in Faults
  /\ flash' \in {flash, [flash EXCEPT ![job[t].area] = Invalid]}
  /\ Succeed(t)
  /\ UNCHANGED <<env, count, crc, cur, next, saves, restarted>>

\* ef_port_erase fails, before or after the area is harmed.  ef_save_env
\* returns and leaves everything it did in RAM.
EraseFails(t) ==
  /\ pc[t] = "erase" /\ "erase" \in Faults
  /\ flash' \in {flash, [flash EXCEPT ![job[t].area] = Invalid]}
  /\ Fail(t)
  /\ UNCHANGED <<env, count, crc, cur, next, changed, saves, restarted>>

\* The cache as it is now lands in the area; it is valid there when the CRC
\* and the end address in it are those of just these variables and this area
\* and all of it was written.
Written(t) ==
  IF /\ crc = Seal(env, count, job[t].area)
     /\ cur = job[t].area
     /\ job[t].size = Used(env) \/ job[t].size > Used(env)
  THEN SavedCache(env, count) ELSE Invalid

\* ef_port_write.  After the second save of a reset both areas are its own.
Write(t) ==
  /\ pc[t] = "write"
  /\ flash' = [flash EXCEPT ![job[t].area] = Written(t)]
  /\ restarted' = (restarted /\ job[t].purpose # "last")
  /\ Succeed(t)
  /\ UNCHANGED <<env, count, crc, cur, next, saves>>

\* ef_port_write fails: the error is returned, but the cache is marked as
\* saved.
WriteFails(t) ==
  /\ pc[t] = "write" /\ "write" \in Faults
  /\ flash' = [flash EXCEPT ![job[t].area] = Invalid]
  /\ changed' = FALSE
  /\ Fail(t)
  /\ UNCHANGED <<env, count, crc, cur, next, saves, restarted>>

ThreadStep(t) ==
  \/ LoadDefault(t)
  \/ Set(t) \/ Del(t) \/ Save(t) \/ Reset(t)
  \/ SaveUnchanged(t) \/ Prepare(t)
  \/ Erase(t) \/ EraseFails(t) \/ Write(t) \/ WriteFails(t)

Next == Load \/ PowerFail \/ \E t \in Threads : ThreadStep(t)

Spec == Init /\ [][Next]_vars

-----------------------------------------------------------------------------
(* Properties.                                                             *)

TypeOK ==
  /\ flash \in [Areas -> Contents]
  /\ env \in Envs /\ count \in 0..CountMod - 1 /\ crc \in Seals
  /\ cur \in Areas /\ next \in Areas
  /\ changed \in BOOLEAN /\ init_ok \in BOOLEAN
  /\ up \in {"off", "booting", "running"}
  /\ pc \in [Threads -> {"idle", "save", "erase", "write"}]
  /\ job \in [Threads -> [area : Areas, size : Sizes, purpose : Purposes]]
  /\ saved \in Envs /\ report \in {"ok", "failed"}
  /\ saves \in 0..MaxSaves /\ restarted \in BOOLEAN

Quiet == up = "running" /\ \A t \in Threads : pc[t] = "idle"

\* Once ef_env_init returned success there is a valid area at every moment,
\* whatever save is under way: a power failure never throws the device back
\* to the default variables.
OneGoodCopy == init_ok => AnyValid(flash)

\* Between calls, after a save that reported success (ef_save_env returned
\* EF_NO_ERR), a restart finds the variables that were saved.
SavedSurvives == Quiet /\ report = "ok" => Loaded(flash) = saved

\* The same when flash operations may fail, as long as the area that the
\* program takes for the current one was really written, and no reset that
\* failed half way has left the other one with a count of before it.
SavedSurvivesIfWritten ==
  Quiet /\ report = "ok" /\ flash[cur].valid /\ ~restarted => Loaded(flash) = saved

\* However many saves failed half way, two valid areas have different save
\* counts, so that ef_load_env has a reason to prefer one; but from a reset,
\* which starts the count again, until both its saves have succeeded.
NoTie == Tied(flash) => restarted

\* What makes the three of them true while one thread at a time calls and
\* flash works, by the step a save has reached.
Serialised ==
  /\ \E t \in Threads : Threads = {t}
  /\ Faults = {}
  /\ MaxSaves < CountMod

\* The cache and the current area agree, but for changes that are marked.
Synced ==
  /\ flash[cur].valid /\ Winner(flash) = cur /\ flash[cur].count = count
  /\ saved = flash[cur].env
  /\ ~changed => env = saved

Resetting == changed /\ env = Default

\* A save is under way and the other area is what a restart would load.
Sealed(t) ==
  /\ changed /\ crc = Seal(env, count, cur)
  /\ job[t].area = cur /\ job[t].size = Used(env)
  /\ pc[t] = "write" => ~flash[cur].valid
OtherWins == flash[next].valid /\ Winner(flash) = next

Phase(t) ==
  \/ pc[t] = "idle" /\ (up = "running" => Synced)
  \/ /\ pc[t] = "save" /\ job[t].purpose = "plain"
     /\ Synced /\ up = "running"
  \/ /\ pc[t] = "save" /\ job[t].purpose = "first"
     /\ Resetting /\ count = 0
     /\ IF up = "running" THEN flash[cur].valid /\ Winner(flash) = cur
                           ELSE ~AnyValid(flash)
  \/ /\ pc[t] = "save" /\ job[t].purpose = "last"
     /\ Resetting /\ count = 1 /\ flash[cur] = SavedCache(Default, 1)
  \/ /\ pc[t] \in {"erase", "write"} /\ job[t].purpose = "plain"
     /\ Sealed(t) /\ up = "running"
     /\ OtherWins /\ count = flash[next].count + 1
  \/ /\ pc[t] \in {"erase", "write"} /\ job[t].purpose = "first"
     /\ Sealed(t) /\ Resetting /\ count = 1
     /\ IF up = "running" THEN OtherWins ELSE ~AnyValid(flash)
  \/ /\ pc[t] \in {"erase", "write"} /\ job[t].purpose = "last"
     /\ Sealed(t) /\ Resetting /\ count = 2
     /\ flash[next] = SavedCache(Default, 1)

Counted ==
  /\ count <= saves
  /\ \A a \in Areas : flash[a].valid => flash[a].count \in 1..saves

Starting ==
  /\ init_ok = (up = "running")
  /\ up # "off" => next = 1 - cur
  /\ up = "off" => \A t \in Threads : pc[t] = "idle"
  /\ up = "booting" =>
       /\ \A t \in Threads : pc[t] # "idle"
       /\ \A a \in Areas : flash[a].valid => flash[a].env = Default

\* The inductive invariant of a serialised use.
SerialInv ==
  /\ TypeOK /\ Counted /\ Starting
  /\ report = "ok"
  /\ \A t \in Threads : Phase(t)

\* One thread at a time calls; flash operations may fail.
OneCaller ==
  /\ \E t \in Threads : Threads = {t}
  /\ MaxSaves < CountMod

\* What is under way is what the CRC was computed over, in the current area.
UnderSeal(t) ==
  /\ changed /\ crc = Seal(env, count, cur) /\ count > 0
  /\ job[t].area = cur /\ job[t].size = Used(env)

\* The count in RAM is at least that of either area, and above that of the
\* other one while a save is under way.
Ahead(t) ==
  /\ \A a \in Areas : flash[a].valid => flash[a].count <= count
  /\ pc[t] \in {"erase", "write"} => (flash[next].valid => flash[next].count < count)
  /\ pc[t] = "write" => ~flash[cur].valid

\* Outside a save, when the cache is not marked the current area holds it or
\* holds nothing; after a success it holds what was saved or nothing.
CurrentHolds(e) == flash[cur].valid => Winner(flash) = cur /\ flash[cur].env = e
Marked(t) ==
  pc[t] \in {"idle", "save"} =>
    /\ ~changed => CurrentHolds(env)
    /\ report = "ok" => CurrentHolds(saved)

\* While the areas may hold counts of before it, a reset counts to 1 and 2, and
\* its second save has nothing but its first beside it.
Restarting(t) ==
  /\ pc[t] = "save" /\ job[t].purpose # "plain" => changed
  /\ pc[t] = "save" /\ job[t].purpose = "last" =>
       (flash[cur].valid => flash[cur].count <= count)
  /\ pc[t] \in {"erase", "write"} /\ job[t].purpose = "last" =>
       (flash[next].valid => flash[next].count < count)

\* The inductive invariant of one caller on flash that may fail.
FaultInv ==
  /\ TypeOK /\ Counted /\ NoTie
  /\ up # "off" => next = 1 - cur
  /\ up = "booting" => changed /\ ~restarted /\ \A t \in Threads : pc[t] # "idle"
  /\ \A t \in Threads :
       /\ up = "off" => pc[t] = "idle"
       /\ pc[t] \in {"erase", "write"} => UnderSeal(t)
       /\ up # "off" /\ ~restarted => Ahead(t)
       /\ up = "running" /\ ~restarted => Marked(t)
       /\ restarted => Restarting(t)

\* The variables as the program sees them: before the start is over, those it
\* will find.
View == IF up = "running" THEN env ELSE Loaded(flash)

\* The two areas together implement a store that saves all at once.
Store == INSTANCE EnvStore WITH view <- View, durable <- Loaded(flash)
StoreSpec == Store!Spec
=============================================================================
