-------------------------------- MODULE Conf --------------------------------
(***************************************************************************)
(* xkrt_init_conf (src/conf/conf.cc): the defaults, then                   *)
(* __parse_with_respect_to_prefix(conf, "XKAAPI_"), which                  *)
(*   - warns about each environ entry with the prefix whose name is not    *)
(*     known, a name being known when strncmp(entry, var->name, len) == 0  *)
(*     for the len characters before its '=';                              *)
(*   - reports each XKRT_ entry as renamed;                                *)
(*   - calls the parser of every CONF_PARSE entry, in table order, with    *)
(*     getenv(var->name), NULL when the variable is unset.                 *)
(* A name is a string, which TLA+ takes as the sequence of its           *)
(* characters, so IsPrefix is strncmp over them.  A value is what atoi (or *)
(* atof) returns for the variable's text.  XKAAPI_DRIVERS, XKAAPI_HELP and *)
(* XKAAPI_VERBOSE act on the driver table and on the logger only, and the  *)
(* entries with a NULL parser only log: they change no field modelled here.*)
(***************************************************************************)
EXTENDS Integers, Sequences, SequencesExt

CONSTANTS
    EnvNames,   \* the names environ may hold
    Vals        \* the values atoi may return for them

\* The fields of xkrt_conf_t the parsers set.
Fields == {"merge_transfers", "kern_concurrency", "h2d_concurrency",
           "d2h_concurrency", "d2d_concurrency", "h2d_n", "d2h_n", "d2d_n",
           "kern_n", "ngpus", "gpu_mem_percent", "capacity", "stats",
           "use_p2p", "protect_overflow", "prefetch"}

\* CONF_PARSE: name, the field its parser sets ("none": no field), and the
\* kind of its parser.
Entry(n, f, k) == [name |-> n, field |-> f, parse |-> k]

CONF_PARSE == <<
    Entry("XKAAPI_CACHE_LIMIT", "none", "null"),
    Entry("XKAAPI_D2D_PER_STREAM", "d2d_concurrency", "max1_u32"),
    Entry("XKAAPI_D2H_PER_STREAM", "d2h_concurrency", "max1_u32"),
    Entry("XKAAPI_DEFAULT_MATH", "none", "null"),
    Entry("XKAAPI_DRIVERS", "none", "drivers"),
    Entry("XKAAPI_GPU_MEM_PERCENT", "gpu_mem_percent", "if_set"),
    Entry("XKAAPI_H2D_PER_STREAM", "h2d_concurrency", "max1_u32"),
    Entry("XKAAPI_HELP", "none", "help"),
    Entry("XKAAPI_KERN_PER_STREAM", "kern_concurrency", "max1_u32"),
    Entry("XKAAPI_MERGE_TRANSFERS", "merge_transfers", "bool"),
    Entry("XKAAPI_NGPUS", "ngpus", "ngpus"),
    Entry("XKAAPI_MEMORY_REGISTER_PROTECT_OVERFLOW", "protect_overflow", "if_set"),
    Entry("XKAAPI_TASK_PREFETCH", "prefetch", "if_set"),
    Entry("XKAAPI_NSTREAMS_D2D", "d2d_n", "max1_u8"),
    Entry("XKAAPI_NSTREAMS_D2H", "d2h_n", "max1_u8"),
    Entry("XKAAPI_NSTREAMS_H2D", "h2d_n", "max1_u8"),
    Entry("XKAAPI_NSTREAMS_KERN", "kern_n", "max1_u8"),
    Entry("XKAAPI_OFFLOADER_CAPACITY", "capacity", "u16"),
    Entry("XKAAPI_PRECISION", "none", "null"),
    Entry("XKAAPI_STATS", "stats", "or_zero"),
    Entry("XKAAPI_USE_P2P", "use_p2p", "bool"),
    Entry("XKAAPI_VERBOSE", "none", "verbose") >>

TableNames == {CONF_PARSE[i].name : i \in 1 .. Len(CONF_PARSE)}

\* The prefix the warning loop reports on, and the old one.
Prefix == "XKAAPI_"
OldPrefix == "XKRT_"

\* xkrt_init_conf, lines 302-340: ngpus is (uint8_t)-1; the stream counts
\* are -1, for stream_suggest to fill.
Defaults ==
    [f \in Fields |->
        CASE f = "stats" -> 0
          [] f = "ngpus" -> 255
          [] f = "gpu_mem_percent" -> 90
          [] f = "use_p2p" -> 1
          [] f = "merge_transfers" -> 0
          [] f = "protect_overflow" -> 1
          [] f = "prefetch" -> 0
          [] f = "capacity" -> 512
          [] f = "kern_concurrency" -> 8
          [] f \in {"d2d_concurrency", "d2h_concurrency", "h2d_concurrency"} -> 64
          [] f \in {"kern_n", "d2d_n", "d2h_n", "h2d_n"} -> -1]

VARIABLES
    env,      \* environ: the value of each name it holds
    conf,     \* the fields of xkrt_conf_t, "none" before xkrt_init_conf
    warned,   \* the names reported as "Unknown environment variable"
    renamed,  \* the names reported as renamed XKRT_ variables
    done      \* xkrt_init_conf returned

vars == <<env, conf, warned, renamed, done>>

\* The environments: a value for some of the names.
Environs == UNION {[D -> Vals] : D \in SUBSET EnvNames}

\* Any environment, before the runtime initialises its configuration.
Init ==
    /\ env \in Environs
    /\ conf = [f \in Fields |-> "none"]
    /\ warned = {}
    /\ renamed = {}
    /\ done = FALSE

-----------------------------------------------------------------------------
(* The parsers, on a value that is set. *)

\* (uint32_t) MAX(atoi(value), 1): __parse_*_per_stream.
ParseMax1U32(v) == (IF v > 1 THEN v ELSE 1) % (2 ^ 32)

\* (uint8_t) MAX(atoi(value), 1): __parse_nstreams_*.
ParseMax1U8(v) == (IF v > 1 THEN v ELSE 1) % 256

\* atoi(value) ? true : false, and (bool) atoi(value).
ParseBool(v) == IF v # 0 THEN 1 ELSE 0

\* (uint16_t) atoi(value): __parse_offloader_capacity.
ParseU16(v) == v % 65536

\* (uint8_t) atoi(value): __parse_ngpus.
ParseNgpus(v) == v % 256

\* Entries of environ.
InEnv == DOMAIN env

\* var->parse(conf, getenv(e.name)) for the field of entry e: with a NULL
\* value __parse_ngpus and __parse_stats set their field, every other
\* parser leaves it.
Parse(e, old) ==
    LET v == env[e.name]
    IN
    CASE e.name \notin InEnv /\ e.parse = "ngpus" -> 1
      [] e.name \notin InEnv /\ e.parse = "or_zero" -> 0
      [] e.name \notin InEnv -> old
      [] e.parse = "max1_u32" -> ParseMax1U32(v)
      [] e.parse = "max1_u8" -> ParseMax1U8(v)
      [] e.parse = "bool" -> ParseBool(v)
      [] e.parse = "u16" -> ParseU16(v)
      [] e.parse = "ngpus" -> ParseNgpus(v)
      [] e.parse \in {"if_set", "or_zero"} -> v

\* Lines 276-283: strncmp(*s, var->name, len) == 0 for some entry, len
\* being the number of characters before the entry's '=': the name is a
\* prefix, in characters, of a known one.
Known(n) == \E i \in 1 .. Len(CONF_PARSE) : IsPrefix(n, CONF_PARSE[i].name)

\* Lines 264-286: the report for each entry of environ.
Warnings ==
    {n \in InEnv : ~IsPrefix(OldPrefix, n) /\ IsPrefix(Prefix, n) /\ ~Known(n)}

\* Lines 288-296: every parser in table order; each field has one entry.
Parsed(c) ==
    [f \in Fields |->
        LET i == CHOOSE i \in 1 .. Len(CONF_PARSE) : CONF_PARSE[i].field = f
        IN  Parse(CONF_PARSE[i], c[f])]

\* xkrt_init_conf: the defaults, then __parse_with_respect_to_prefix.
InitConf ==
    /\ ~done
    /\ conf' = Parsed(Defaults)
    /\ warned' = Warnings
    /\ renamed' = {n \in InEnv : IsPrefix(OldPrefix, n)}
    /\ done' = TRUE
    /\ UNCHANGED env

Next == InitConf

Spec == Init /\ [][Next]_vars /\ WF_vars(InitConf)

-----------------------------------------------------------------------------
(* Properties. *)

\* Spec 5: every unrecognised XKAAPI_ key is warned about.
UnknownWarned ==
    done => \A n \in InEnv :
                (IsPrefix(Prefix, n) /\ n \notin TableNames) => n \in warned

\* MAX(atoi(value), 1) in the stream parsers: a stream count set from the
\* environment is at least 1.
StreamCountPositive ==
    done => \A f \in {"kern_n", "d2d_n", "d2h_n", "h2d_n"} :
                conf[f] # Defaults[f] => conf[f] >= 1
=============================================================================
