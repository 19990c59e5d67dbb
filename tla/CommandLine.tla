---------------------------- MODULE CommandLine ----------------------------
(***************************************************************************)
(* The command line of src/src/dpmaster.c, and the options that only set a *)
(* number or a flag.  The modules of the other options extend this one.    *)
(*                                                                         *)
(* Numbers are what strtol makes of a parameter, before their conversion   *)
(* to an unsigned type.  The widths of these types are constants, so that  *)
(* the numbers around them stay small.                                     *)
(***************************************************************************)
EXTENDS Integers

CONSTANTS
  UINT_RANGE,           \* 2^32: the numbers of an unsigned int
  USHORT_RANGE,         \* 2^16: the numbers of an unsigned short
  MAX_HASH_SIZE,
  NotANumber,           \* a parameter that strtol does not read to its end
  DefaultSettings       \* the initial values of the variables below

NumericOptions == {"max-clients", "fp-throttle", "fp-decay-time", "cl-hash-size", "max-servers",
                   "max-servers-per-addr", "hash-size", "port", "verbose"}
FlagOptions    == {"allow-loopback", "flood-protection", "hash-ports", "daemon"}
MSG_DEBUG      == 4

\* What the other modules assume of the numbers: no limit is 0 where 0 makes no
\* sense, and none is larger than its type.  The exception is a throttle limit
\* from 2^31 on, which Cl_SetFPThrottle lets through and which is negative
\* afterwards.
Usable(numbers) ==
  /\ \A option \in NumericOptions \ {"fp-throttle"} :
       numbers[option] \in 0 .. (IF option = "port" THEN USHORT_RANGE ELSE UINT_RANGE) - 1
  /\ \A option \in {"max-clients", "max-servers", "fp-decay-time", "port"} : numbers[option] # 0
  /\ numbers["fp-throttle"] \in (- (UINT_RANGE \div 2) .. UINT_RANGE \div 2 - 1) \ {0, 1}
  /\ \A option \in {"cl-hash-size", "hash-size"} : numbers[option] <= MAX_HASH_SIZE

ASSUME WidthAssumption ==
  /\ MAX_HASH_SIZE \in Nat
  /\ USHORT_RANGE \in Nat \ {0, 1} /\ UINT_RANGE \in Nat /\ UINT_RANGE > MSG_DEBUG
  /\ UINT_RANGE % 2 = 0
  /\ DefaultSettings \in [NumericOptions -> Nat] /\ Usable(DefaultSettings)

VARIABLES
  status,               \* how far the program has come, see Dpmaster
  settings,             \* the numbers, by the name of their option
  flags                 \* the flags that are set

settingVars == <<settings, flags>>

\* Mutant: a signed limit lets negative numbers through as they are.
Mutant_Unsigned(option, number) == number
Unsigned(option, number) ==
  number % (IF option = "port" THEN USHORT_RANGE ELSE UINT_RANGE)

\* What Cl_Set..., Sv_Set... and Cmdline_Option accept.
InRange(option, number) ==
  /\ option \in {"max-clients", "max-servers", "fp-decay-time", "port"} => number > 0
  /\ option = "fp-throttle" => number > 1
  /\ option \in {"cl-hash-size", "hash-size"} => number <= MAX_HASH_SIZE
  /\ option = "verbose" => number <= MSG_DEBUG           \* MSG_DEBUG without a parameter

\* The throttle limit is kept in a signed int.
Stored(option, number) ==
  IF option = "fp-throttle" /\ number >= UINT_RANGE \div 2 THEN number - UINT_RANGE ELSE number

\* An option that is in error ends the program.
Refused == status' = "refused"

NumericOption(o) ==
  /\ status = "parsing"
  /\ o.option \in NumericOptions
  /\ LET number == Unsigned(o.option, o.number)
     IN  IF o.number # NotANumber /\ InRange(o.option, number)
           THEN /\ settings' = [settings EXCEPT ![o.option] = Stored(o.option, number)]
                /\ UNCHANGED status
           ELSE Refused /\ UNCHANGED settings
  /\ UNCHANGED flags

FlagOption(o) ==
  /\ status = "parsing"
  /\ o.option \in FlagOptions
  /\ flags' = flags \cup {o.option}
  /\ UNCHANGED <<status, settings>>

SettingsInit ==
  /\ settings = DefaultSettings
  /\ flags = {}

----------------------------------------------------------------------------
\* The settings are those the other modules assume, whatever was on the command
\* line (Cmdline_Option and the functions it calls in clients.c and servers.c).
SettingsTypeOK ==
  /\ settings \in [NumericOptions -> Int] /\ Usable(settings)
  /\ flags \subseteq FlagOptions
=============================================================================
