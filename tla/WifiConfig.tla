----------------------------- MODULE WifiConfig -----------------------------
(***************************************************************************)
(* The configuration of the WLAN in the environment variables              *)
(* (wifi_config.c, wlan_autoconnect_init): its length and its contents in  *)
(* base64 are two variables that write_cfg sets one after the other and    *)
(* then saves, and that get_len and read_cfg find when the device starts.  *)
(*                                                                         *)
(* Below is EnvStore: saves are atomic, as they are for one thread that    *)
(* saves at a time (EfEnv).  Beside the WLAN's thread the shell sets,      *)
(* saves and resets variables (ef_cmd.c), and the power may fail.          *)
(***************************************************************************)
EXTENDS Integers, Sequences, EnvCache

CONSTANTS
  Configs,     \* configurations, sequences of bytes
  Others,      \* values the shell gives to other variables
  Default,     \* default_env_set
  StrayLens,   \* what atoi makes of a text that is moved while it is read, ...
  Strays       \* ... and what str_base64_decode does

-----------------------------------------------------------------------------
(* The base64 of wifi_config.c.  A character is its place in base64_table, *)
(* 0 to 63, or Pad, which is '='.                                          *)

Bytes == 0..255
Pad == 64

\* Byte i, zero after the end.
ByteAt(b, i) == IF i \in DOMAIN b THEN b[i] ELSE 0

\* The four characters of three bytes.
Sextets(x, y, z) ==
  <<x \div 4, (x % 4) * 16 + y \div 16, (y % 16) * 4 + z \div 64, z % 64>>

\* Blocks of three bytes; what the last one lacks is filled up with Pad.
str_base64_encode_len(b) ==
  [i \in 1 .. 4 * ((Len(b) + 2) \div 3) |->
     LET g == (i - 1) \div 4
         s == (i - 1) % 4
     IN  IF 3 * g + s > Len(b) THEN Pad
         ELSE Sextets(ByteAt(b, 3 * g + 1), ByteAt(b, 3 * g + 2),
                      ByteAt(b, 3 * g + 3))[s + 1]]

\* What write_cfg allocates for the characters of len bytes and their end.
EncodedRoom_short(len) == (len * 4) \div 3 + 1
EncodedRoom(len) == (len * 4) \div 3 + 4

\* base64_decode_table and the test for '='.
Sextet(c) == IF c = Pad THEN 0 ELSE c

\* The three bytes of four characters.
Octets(p, q, r, s) ==
  LET triple == p * 262144 + q * 4096 + r * 64 + s
  IN  <<(triple \div 65536) % 256, (triple \div 256) % 256, triple % 256>>

\* Fault variant: Pad at the end counts as data.
str_base64_decode_padded(c) ==
  [j \in 1 .. (Len(c) \div 4) * 3 |->
     LET at(i) == Sextet(c[4 * ((j - 1) \div 3) + i])
     IN  Octets(at(1), at(2), at(3), at(4))[((j - 1) % 3) + 1]]

\* out_len: three bytes for four characters, less the Pads at the end.
DecodedLen(c) ==
  (Len(c) \div 4) * 3 - (IF c[Len(c)] = Pad THEN 1 ELSE 0)
                    - (IF c[Len(c) - 1] = Pad THEN 1 ELSE 0)

\* Of a text that is no whole number of blocks nothing is decoded.
str_base64_decode(c) ==
  IF c = <<>> \/ Len(c) % 4 # 0 THEN <<>>
  ELSE [j \in 1 .. DecodedLen(c) |->
          LET at(i) == Sextet(c[4 * ((j - 1) \div 3) + i])
          IN  Octets(at(1), at(2), at(3), at(4))[((j - 1) % 3) + 1]]

-----------------------------------------------------------------------------

LenOf(c)  == [len |-> Len(c)]
InfoOf(c) == [info |-> str_base64_encode_len(c)]

ASSUME WifiConfigAssumption ==
  /\ {"wlan_cfg_len", "wlan_cfg_info"} \subseteq Keys
  /\ \A c \in Configs : c \in Seq(Bytes) /\ c # <<>>
  /\ \A c \in Configs : LenOf(c) \in Values /\ InfoOf(c) \in Values
  /\ Others \subseteq Values
  /\ StrayLens \subseteq Int /\ Strays \subseteq Seq(Bytes)
  /\ Default \in Envs
  /\ DOMAIN Default \intersect {"wlan_cfg_len", "wlan_cfg_info"} = {}

VARIABLES
  view, durable,  \* the variables in RAM and after a restart
  pc,             \* the WLAN's thread
  cfg,            \* the configuration it writes, or <<>>
  len,            \* what get_len returned
  got,            \* what read_cfg left in the buffer
  kept,           \* history: the configuration a restart should find, or <<>>
  moved,          \* history: during which lookups of this start the shell moved
                  \*   what lies in RAM
  torn,           \* history: the shell came between the two sets of a write
  full            \* history: a variable of the configuration did not fit;
                  \*   both until a write ends well

hist == <<kept, moved, torn, full>>
vars == <<view, durable, pc, cfg, len, got, hist>>

Store == INSTANCE EnvStore

Init ==
  /\ Store!Init
  /\ pc = "get_len" /\ cfg = <<>> /\ len = 0 /\ got = <<>>
  /\ kept = <<>> /\ moved = {} /\ torn = FALSE /\ full = FALSE

-----------------------------------------------------------------------------
(* The WLAN's thread.                                                      *)

\* get_len and read_cfg look for their variable with ef_get_env, which takes no
\* lock and returns the place of the text, and read the text from there.
Lookups == {"in_get_len", "in_read_cfg"}

Begins(from, to) ==
  /\ pc = from /\ pc' = to
  /\ UNCHANGED <<view, durable, cfg, len, got, hist>>

GetLenBegins  == Begins("get_len", "in_get_len")
ReadCfgBegins == Begins("read_cfg", "in_read_cfg")

\* atoi of wlan_cfg_len, 0 without it; of whatever lies there if the shell moved
\* it meanwhile.
get_len ==
  /\ pc = "in_get_len"
  /\ \/ len' = IF "wlan_cfg_len" \in DOMAIN view THEN view["wlan_cfg_len"].len ELSE 0
     \/ pc \in moved /\ len' \in StrayLens
  /\ pc' = "read_cfg"
  /\ UNCHANGED <<view, durable, cfg, got, hist>>

\* The contents are decoded into the buffer, however long that is.
read_cfg ==
  /\ pc = "in_read_cfg"
  /\ \/ got' = IF "wlan_cfg_info" \in DOMAIN view
               THEN str_base64_decode(view["wlan_cfg_info"].info) ELSE <<>>
     \/ pc \in moved /\ got' \in Strays
  /\ pc' = "idle" /\ moved' = {}
  /\ UNCHANGED <<view, durable, cfg, len, kept, torn, full>>

\* write_cfg is called, with memory for the encoded text; without, it returns
\* before anything happened.
WriteBegins ==
  /\ pc = "idle"
  /\ cfg' \in Configs
  /\ pc' = "set_len"
  /\ UNCHANGED <<view, durable, len, got, hist>>

\* ef_set_env, its result not looked at.
Put(k, v) ==
  /\ view' = ef_set_env(view, k, v)
  /\ full' = (full \/ k \notin DOMAIN view')
  /\ UNCHANGED <<durable, cfg, len, got, kept, moved, torn>>

SetLen ==
  /\ pc = "set_len" /\ pc' = "set_info"
  /\ Put("wlan_cfg_len", LenOf(cfg))

\* Fault variant: what was there is good enough.
SetInfoOnce ==
  /\ pc = "set_info" /\ pc' = "save"
  /\ IF "wlan_cfg_info" \in DOMAIN view
     THEN UNCHANGED <<view, durable, cfg, len, got, hist>>
     ELSE Put("wlan_cfg_info", InfoOf(cfg))

SetInfo ==
  /\ pc = "set_info" /\ pc' = "save"
  /\ Put("wlan_cfg_info", InfoOf(cfg))

\* Fault variant: write_cfg leaves the saving to others.
SaveNever ==
  /\ pc = "save" /\ pc' = "idle" /\ kept' = cfg
  /\ cfg' = <<>>
  /\ UNCHANGED <<view, durable, len, got, moved, torn, full>>

\* A whole configuration, or none, ends what came between before.
Save ==
  /\ pc = "save" /\ pc' = "idle"
  /\ Store!Commit
  /\ kept' = IF "wlan_cfg_info" \in DOMAIN view THEN cfg ELSE <<>>
  /\ LET whole == "wlan_cfg_len" \in DOMAIN view <=> "wlan_cfg_info" \in DOMAIN view
     IN  torn' = (torn /\ ~whole) /\ full' = (full /\ ~whole)
  /\ cfg' = <<>>
  /\ UNCHANGED <<len, got, moved>>

-----------------------------------------------------------------------------
(* The shell, and the power.                                               *)

\* A variable that is deleted, or set to another value, is taken out of the
\* cache, and those behind it move up; a new one comes at the end.
Moves(e, f) == \E k \in DOMAIN e : k \notin DOMAIN f \/ f[k] # e[k]
MovedBy(f)  == IF Moves(view, f) THEN moved \union ({pc} \intersect Lookups) ELSE moved

\* setenv <key> [value], of a variable that is none of the configuration's.
setenv ==
  /\ \E k \in Keys \ {"wlan_cfg_len", "wlan_cfg_info"} :
       \/ \E v \in Others : view' = ef_set_env(view, k, v)
       \/ k \in DOMAIN view /\ view' = del_env(view, k)
  /\ moved' = MovedBy(view')
  /\ UNCHANGED <<durable, pc, cfg, len, got, kept, torn, full>>

\* saveenv, in the midst of a write, too.
saveenv ==
  /\ Store!Commit
  /\ torn' = (torn \/ pc = "set_info")
  /\ kept' = IF pc = "save" /\ "wlan_cfg_info" \in DOMAIN view THEN cfg ELSE kept
  /\ UNCHANGED <<pc, cfg, len, got, moved, full>>

\* resetenv: default variables, saved at once.
resetenv ==
  /\ view' = Default /\ durable' = Default
  /\ moved' = MovedBy(view')
  /\ torn' = (torn \/ pc = "set_info")
  /\ kept' = <<>>
  /\ UNCHANGED <<pc, cfg, len, got, full>>

\* The power fails; the device starts again (wlan_autoconnect_init).
PowerFail ==
  /\ Store!PowerFail
  /\ pc' = "get_len" /\ cfg' = <<>> /\ len' = 0 /\ got' = <<>>
  /\ moved' = {}
  /\ UNCHANGED <<kept, torn, full>>

Wlan  == GetLenBegins \/ get_len \/ ReadCfgBegins \/ read_cfg \/ WriteBegins \/ SetLen \/ SetInfo \/ Save
Shell == setenv \/ saveenv \/ resetenv

Next == Wlan \/ Shell \/ PowerFail

Spec == Init /\ [][Next]_vars

-----------------------------------------------------------------------------
(* Properties.                                                             *)

\* What is read is a configuration, whole, or else a stray text.
TypeOK ==
  /\ view \in Envs /\ durable \in Envs
  /\ pc \in Lookups \union {"get_len", "read_cfg", "idle", "set_len", "set_info", "save"}
  /\ cfg \in Configs \union {<<>>} /\ kept \in Configs \union {<<>>}
  /\ got \in Configs \union {<<>>} \union Strays
  /\ len \in Int /\ moved \subseteq Lookups
  /\ torn \in BOOLEAN /\ full \in BOOLEAN

\* Both variables of the configuration c, or none of any.
Holds(e, c) ==
  IF c = <<>> THEN DOMAIN e \intersect {"wlan_cfg_len", "wlan_cfg_info"} = {}
  ELSE /\ {"wlan_cfg_len", "wlan_cfg_info"} \subseteq DOMAIN e
       /\ e["wlan_cfg_len"] = LenOf(c) /\ e["wlan_cfg_info"] = InfoOf(c)

\* What a restart would find are the length and the contents of one and the
\* same configuration, the last one written to its end, wherever the power
\* fails in a write; unless the shell saved or reset the variables between the
\* two sets of a write, or one of the two ever did not fit.
PairUnlessDisturbed ==
  ~torn /\ ~full => Holds(durable, kept)

\* And that configuration is what a start reads: read_cfg gives the bytes of
\* write_cfg back, and no more of them than get_len said, although both look
\* for their variables on their own and a resetenv may come between them.  Only
\* while one of them is under way, between the lookup without a lock and the
\* last character read, the shell must not move what lies in RAM: then the
\* contents, or the length, are those of some other text.
ReadsBack ==
  [][read_cfg /\ ~torn /\ ~full =>
       /\ "in_read_cfg" \notin moved => got' = kept
       /\ moved = {} /\ got' # <<>> => len = Len(got')]_vars

\* The text and its terminating zero fit the memory write_cfg took for them.
EncodeFits ==
  cfg # <<>> => Len(str_base64_encode_len(cfg)) + 1 <= EncodedRoom(Len(cfg))

\* The variables of the configuration are of some configurations.
Known(e) ==
  /\ "wlan_cfg_len" \in DOMAIN e =>
       \E c \in Configs : e["wlan_cfg_len"] = LenOf(c)
  /\ "wlan_cfg_info" \in DOMAIN e =>
       \E c \in Configs : e["wlan_cfg_info"] = InfoOf(c)

\* What a write has done by its place, whatever came between.
Written ==
  /\ pc \in {"set_len", "set_info", "save"} <=> cfg # <<>>
  /\ pc \in {"set_info", "save"} /\ "wlan_cfg_len" \in DOMAIN view =>
       view["wlan_cfg_len"] = LenOf(cfg)
  /\ pc = "save" /\ "wlan_cfg_info" \in DOMAIN view =>
       view["wlan_cfg_info"] = InfoOf(cfg)

\* And what the variables are if nothing came between.
Undisturbed ==
  ~torn /\ ~full =>
    /\ Holds(durable, kept)
    /\ pc \in Lookups \union {"get_len", "read_cfg", "idle", "set_len"} => Holds(view, kept)
    /\ pc = "set_info" => "wlan_cfg_len" \in DOMAIN view
    /\ pc = "save" => Holds(view, cfg) \/ (Holds(view, <<>>) /\ kept = <<>>)
    /\ pc \in {"read_cfg", "in_read_cfg"} /\ kept # <<>> /\ moved = {} => len = Len(kept)

\* The invariant the proofs of PairUnlessDisturbed and ReadsBack take.
WifiInv == TypeOK /\ Known(view) /\ Known(durable) /\ Written /\ Undisturbed

\* What write_cfg leaves is right: of its memory, in RAM and after a restart.
ConfigKept == TypeOK /\ PairUnlessDisturbed /\ EncodeFits
=============================================================================
