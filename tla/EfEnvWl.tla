------------------------------ MODULE EfEnvWl ------------------------------
(***************************************************************************)
(* ef_env_wl.c: the environment in wear levelling mode, with or without    *)
(* the power fail safeguard.  A system sector tells which data sector is   *)
(* in use; when a data sector cannot be erased or written, the next one is *)
(* taken.  The safeguard has two such areas, saved to in turn.             *)
(*                                                                         *)
(* The variables themselves are one value here; EnvCache has the cache.    *)
(* They fit into one sector, addresses count sectors.                      *)
(***************************************************************************)
EXTENDS Integers, FiniteSets, Sequences

CONSTANTS
  Pfs,       \* EF_ENV_USING_PFS_MODE
  Area,      \* ENV_AREA_SIZE / EF_ERASE_MIN_SIZE
  Values, Default,
  MaxSaves,  \* bound: saves that the program asks for
  MaxCuts,   \* bound: power losses
  MaxFaults  \* bound: operations of the flash that fail

EnvWlAssumption ==
  Pfs \in BOOLEAN /\ Area \in Nat /\ Area >= 4 /\ Area % 2 = 0 /\ Default \notin Values

Half  == Area \div 2
Areas == IF Pfs THEN {0, Half} ELSE {0}   \* named by their system sectors
\* data_sec_end_addr, and a fault variant: of area 0 it is one sector late.
DataEnd_late(s) == IF Pfs /\ s < Half THEN Half + 1 ELSE Area

DataEnd(s)   == IF Pfs /\ s < Half THEN Half ELSE Area

\* The system sector that save_cur_using_data_addr takes, and a fault
\* variant: the one of area 0 for both.
SystemOf_zero(s) == 0

SystemOf(s)  == IF Pfs /\ s >= Half THEN Half ELSE 0

DataOf(a)    == a + 1 .. DataEnd(a) - 1

\* What ef_load_env has to do besides writing addresses.
SetDefault == -2
SaveAgain  == -3

\* An address that is no sector's: an erased or torn word was taken for it.
Bad == -1

VARIABLES
  flash,   \* [sector -> what it holds]
  pc,      \* what is done next
  todo,    \* what ef_load_env still has to do
  cur,     \* cur_using_data_addr
  next,    \* next_save_area_addr
  end,     \* data_sec_end_addr
  value,   \* env_cache
  count,   \* its saved count
  changed, \* env_cache_changed
  bak,     \* cur_using_addr_bak
  init_ok,
  saves, cuts, faults,
  may,     \* history: what the next start may load
  spoilt   \* history: a "pointer" could not be written, an area was "full", a
           \* "reset" to the defaults was interrupted

vars == <<flash, pc, todo, cur, next, end, value, count, changed, bak, init_ok,
          saves, cuts, faults, may, spoilt>>
bounds  == <<saves, cuts, faults>>
history == <<may, spoilt>>

Cell(kind, at, n, v) == [kind |-> kind, at |-> at, count |-> n, value |-> v]
Blank      == Cell("blank", Bad, 0, Default)
Torn       == Cell("torn", Bad, 0, Default)
Pointer(s) == Cell("pointer", s, 0, Default)
Env        == Cell("env", Bad, count, value)

-----------------------------------------------------------------------------
(* ef_load_env.                                                            *)

Using(a) == flash[a].at

IsValid(a) == flash[a].kind = "pointer" /\ Using(a) \in DataOf(a) /\ flash[Using(a)].kind = "env"

\* Fault variant: the area with the smaller saved count is taken.
Newer_older(m, n) == m < n

Newer(m, n) == m > n
Chosen == IF IsValid(0) /\ (IsValid(Half) => Newer(flash[Using(0)].count, flash[Using(Half)].count))
          THEN 0 ELSE Half
Other(a) == Half - a

Load(s, other) ==
  /\ cur' = s /\ next' = other /\ value' = flash[s].value /\ count' = flash[s].count
  /\ pc' = "idle" /\ init_ok' = TRUE /\ may' = {value'}
  /\ UNCHANGED todo
Reset(s, other, tasks) ==
  /\ cur' = s /\ next' = other /\ pc' = "next" /\ todo' = tasks
  /\ UNCHANGED <<value, count, init_ok, may>>

LoadTwo ==
  IF IsValid(0) \/ IsValid(Half) THEN Load(Using(Chosen), Using(Other(Chosen)))
  ELSE Reset(Half + 1, 1, <<1, Half + 1, SetDefault, SaveAgain>>)

\* A torn sector may end where no environment can or have a wrong checksum.
LoadOne ==
  IF IsValid(0) THEN Load(Using(0), Bad)
  ELSE \/ Reset(1, Bad, <<1, SetDefault>>)
       \/ /\ Using(0) \in DataOf(0) /\ flash[Using(0)].kind = "torn"
          /\ Reset(Using(0), Bad, <<SetDefault>>)

ef_load_env == /\ pc = "off" /\ (IF Pfs THEN LoadTwo ELSE LoadOne)
               /\ UNCHANGED <<flash, end, changed, bak, bounds, spoilt>>

-----------------------------------------------------------------------------
(* ef_save_env: where it saves to and with which count.                    *)

Target  == IF Pfs THEN next ELSE cur
\* Behind the area there is nothing to erase.  An address that is no sector's
\* fails the assertion of ef_port_erase, which loops for ever.
Begin(v, n, also) ==
  /\ cur' = Target /\ bak' = Target /\ next' = (IF Pfs THEN cur ELSE next)
  /\ end' = DataEnd(Target) /\ value' = v /\ count' = (IF Pfs THEN n + 1 ELSE n)
  /\ pc' = IF Target = Bad THEN "hung" ELSE IF Target < end' THEN "erase" ELSE "idle"
  /\ may' = may \union {v} \union also

Set(v) ==
  /\ pc = "idle" /\ init_ok /\ v # value /\ value' = v /\ changed' = TRUE
  /\ UNCHANGED <<flash, pc, todo, cur, next, end, count, bak, init_ok, bounds, history>>

\* Without the safeguard a save overwrites the only copy.
Save ==
  /\ pc = "idle" /\ init_ok /\ changed /\ saves < MaxSaves /\ saves' = saves + 1
  /\ Begin(value, count, IF Pfs THEN {} ELSE {Default}) /\ changed' = (pc' # "idle")
  /\ UNCHANGED <<flash, todo, init_ok, cuts, faults, spoilt>>

\* The tasks of ef_load_env: the addresses, the defaults for each area.
IsAddress(task) == task > 0
Initialised ==
  /\ pc = "next" /\ todo = <<>> /\ pc' = "idle" /\ init_ok' = TRUE
  /\ UNCHANGED <<flash, todo, cur, next, end, value, count, changed, bak, bounds, history>>
Address ==
  /\ pc = "next" /\ todo # <<>> /\ IsAddress(Head(todo)) /\ pc' = "erase address"
  /\ UNCHANGED <<flash, todo, cur, next, end, value, count, changed, bak, init_ok, bounds, history>>
ef_env_set_default ==
  /\ pc = "next" /\ todo # <<>> /\ ~IsAddress(Head(todo)) /\ todo' = Tail(todo)
  /\ IF Head(todo) = SetDefault THEN Begin(Default, 0, {}) ELSE Begin(value, count, {})
  /\ changed' = TRUE
  /\ UNCHANGED <<flash, init_ok, bounds, spoilt>>

-----------------------------------------------------------------------------
(* Its loop, and save_cur_using_data_addr.                                 *)

Becomes(s, c) == flash' = [flash EXCEPT ![s] = c]
Fault == faults < MaxFaults /\ faults' = faults + 1
NoFault == UNCHANGED faults

Succeeds ==
  /\ changed' = FALSE /\ may' = {value} /\ pc' = IF init_ok THEN "idle" ELSE "next"
  /\ UNCHANGED <<todo, cur, spoilt>>
Fails(why) ==
  /\ changed' = FALSE /\ pc' = "idle" /\ todo' = <<>> /\ spoilt' = spoilt \union {why}
  /\ UNCHANGED may
GoesOn(step) == pc' = step /\ UNCHANGED <<todo, cur, changed, history>>

\* The next available position.
Moves ==
  /\ cur' = cur + 1
  /\ IF cur + 1 < end THEN pc' = "erase" /\ UNCHANGED <<todo, changed, history>> ELSE Fails("full")

EraseData ==
  /\ pc = "erase"
  /\ \/ NoFault /\ Becomes(cur, Blank) /\ GoesOn("write")
     \/ Fault /\ (UNCHANGED flash \/ Becomes(cur, Torn)) /\ Moves
WriteData ==
  /\ pc = "write"
  /\ \/ NoFault /\ Becomes(cur, Env) /\ (IF cur = bak THEN Succeeds ELSE GoesOn("erase address"))
     \/ Fault /\ Becomes(cur, Torn) /\ Moves

InTable == todo # <<>> /\ IsAddress(Head(todo))
Pointed == IF InTable THEN Head(todo) ELSE cur
Written ==
  IF InTable THEN todo' = Tail(todo) /\ pc' = "next" /\ UNCHANGED <<cur, changed, history>>
  ELSE Succeeds
EraseAddress ==
  /\ pc = "erase address"
  /\ \/ NoFault /\ Becomes(SystemOf(Pointed), Blank) /\ GoesOn("write address")
     \/ Fault /\ UNCHANGED <<flash, cur>> /\ Fails("pointer")
WriteAddress ==
  /\ pc = "write address"
  /\ \/ NoFault /\ Becomes(SystemOf(Pointed), Pointer(Pointed)) /\ Written
     \/ Fault /\ UNCHANGED <<flash, cur>> /\ Fails("pointer")

Flash == /\ EraseData \/ WriteData \/ EraseAddress \/ WriteAddress
         /\ UNCHANGED <<next, end, value, count, bak, init_ok, saves, cuts>>

-----------------------------------------------------------------------------
(* A power loss leaves a sector torn in the middle of an erase or a write; *)
(* a word is written or not.                                               *)

TornBy ==
  IF pc = "erase" \/ pc = "write" THEN UNCHANGED flash \/ Becomes(cur, Torn)
  ELSE UNCHANGED flash
\* Both areas have their addresses once ef_load_env is through, so an address
\* half changed is one of them gone.
PowerLoss ==
  /\ pc # "off" /\ cuts < MaxCuts /\ cuts' = cuts + 1
  /\ TornBy
  /\ pc' = "off" /\ todo' = <<>> /\ cur' = Bad /\ next' = Bad /\ end' = 0 /\ bak' = Bad
  /\ value' = Default /\ count' = 0 /\ changed' = FALSE /\ init_ok' = FALSE
  /\ spoilt' = spoilt \union (IF pc = "write address" /\ ~InTable THEN {"pointer"} ELSE {})
                       \union (IF ~Pfs /\ ~init_ok THEN {"reset"} ELSE {})
  /\ UNCHANGED <<saves, faults, may>>

Init ==
  /\ flash = [s \in 0 .. Area - 1 |-> Blank] /\ pc = "off" /\ todo = <<>> /\ cur = Bad /\ next = Bad
  /\ end = 0 /\ value = Default /\ count = 0 /\ changed = FALSE /\ bak = Bad /\ init_ok = FALSE
  /\ saves = 0 /\ cuts = 0 /\ faults = 0 /\ may = {Default} /\ spoilt = {}

Next == \/ ef_load_env \/ Save \/ Initialised \/ Address \/ ef_env_set_default \/ Flash \/ PowerLoss
        \/ \E v \in Values : Set(v)

Spec == Init /\ [][Next]_vars

-----------------------------------------------------------------------------
(* Properties.                                                             *)

\* Every variable has a value of its type.
TypeOK ==
  /\ \A s \in 0 .. Area - 1 : /\ flash[s].kind \in {"blank", "torn", "pointer", "env"}
                              /\ flash[s].value \in Values \union {Default}
  /\ cur \in Bad .. Area /\ next \in Bad .. Area /\ bak \in Bad .. Area
  /\ may \subseteq Values \union {Default} /\ spoilt \subseteq {"pointer", "full", "reset"}

\* A start loads the value whose save succeeded last or one whose save a
\* power loss interrupted; it goes back to the defaults only if they are such
\* a value or, without the safeguard, a save was interrupted.  Sectors may
\* fail; nothing is said once an address could not be changed, an area ran
\* out of sectors or, without the safeguard, the setting of the defaults was
\* interrupted: the address may be back at a sector left long ago.
BootsWhatWasSaved ==
  [][pc = "off" /\ pc' # "off" => \/ spoilt # {}
                                  \/ IF init_ok' THEN value' \in may ELSE Default \in may]_vars

\* No save hangs in the assertion of ef_port_erase, on the address that an
\* erased system sector seems to hold, unless that address could not be
\* changed before.
NeverHangs == pc = "hung" => spoilt # {}

\* A system sector never holds an environment, although sectors that fail
\* push it towards the next area, unless an area ran out of sectors.
SystemSectors == "full" \notin spoilt => \A a \in Areas : flash[a].kind # "env"
=============================================================================
