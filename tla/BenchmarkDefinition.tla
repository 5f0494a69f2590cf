------------------------ MODULE BenchmarkDefinition ------------------------
(***************************************************************************)
(* internal/persistence/jsonp: how a benchmark definition, a JSON file,    *)
(* becomes the sessions of drbenchmark, and what is checked on the way.    *)
(*                                                                         *)
(* The setting of a session comes from three levels: that of its pattern,  *)
(* that of the whole definition and the config file.  A level is a         *)
(* function from the fields to a value or Unset; a TC or DRP object that   *)
(* is nil leaves all its fields Unset.  Scale is in hundredths.  Of a      *)
(* pattern file only its first sample is kept, in kbit/s, for the qdisc is *)
(* added with twice that rate; hashes and names are left out.              *)
(***************************************************************************)
EXTENDS Integers, Sequences

CONSTANTS
    Unset,       \* a field the JSON does not have
    Config,      \* the session of config.PlayCfg()
    Int32Half    \* 2^31, what an int32 holds

TCFields == {"Markfree", "Markfull", "Extralatency", "Queuesizepackets",
             "L4sEnablePreMarking", "SignalDrpStart"}

DRPFields == {"Scale", "Frequency", "MinRateKbits", "WarmupBeforeDrpMs"}

Fields == TCFields \cup DRPFields

Numbers == Fields \ {"L4sEnablePreMarking", "SignalDrpStart"}

IsSet(level, f) == level[f] # Unset

\* int32(x) of an integer.
ToInt32(x) == ((x + Int32Half) % (2 * Int32Half)) - Int32Half

-----------------------------------------------------------------------------
(* Validate, per level                                                     *)

\* Slip (RefusedLate): no level is asked for its marking.
TCSettingValidLatencyOnly(level) ==
    ~(IsSet(level, "Extralatency") /\ level["Extralatency"] < 0 /\ level["Extralatency"] > 100)

\* The second refusal asks for a latency below 0 and above 100.
TCSettingValid(level) ==
    /\ ~ /\ IsSet(level, "Markfree")
         /\ IsSet(level, "Markfull")
         /\ level["Markfree"] > level["Markfull"]
    /\ ~ /\ IsSet(level, "Extralatency")
         /\ level["Extralatency"] < 0
         /\ level["Extralatency"] > 100

DRPSettingValid(level) ==
    /\ IsSet(level, "Frequency") => level["Frequency"] \in 0..100
    /\ IsSet(level, "Scale") => level["Scale"] >= 10
    /\ IsSet(level, "MinRateKbits") => level["MinRateKbits"] >= 0
    /\ IsSet(level, "WarmupBeforeDrpMs") => level["WarmupBeforeDrpMs"] >= 0

SettingValid(level) == TCSettingValid(level) /\ DRPSettingValid(level)

\* Only the settings of the patterns are validated, not the definition's own.
DefinitionValid(definition) ==
    /\ definition.patterns # <<>>
    /\ \A i \in DOMAIN definition.patterns : SettingValid(definition.patterns[i])

-----------------------------------------------------------------------------
(* Read...WithFallbacks and LoadDB_benchmarkFromJson                       *)

\* Slip (InnermostWins): a level overwrites the one inside it.
TakeLast(read, level) ==
    [f \in Fields |-> IF level[f] # Unset THEN level[f] ELSE read[f]]

\* One turn of the loop: a field that is not set yet is taken from level.
Take(read, level) ==
    [f \in Fields |-> IF read[f] = Unset THEN level[f] ELSE read[f]]

\* The two turns there are: a pattern's setting, then the definition's.
ReadWithFallbacks(fallback, inner, outer) ==
    LET read == Take(Take([f \in Fields |-> Unset], inner), outer)
    IN  [f \in Fields |->
            IF read[f] = Unset THEN fallback[f]
            ELSE IF f = "Queuesizepackets" THEN ToInt32(read[f]) ELSE read[f]]

\* convertDRPdata scales a sample and raises it to the minimum rate.
Converted(sample, setting) ==
    LET scaled == sample * setting["Scale"]
        least == 100 * setting["MinRateKbits"]
    IN  IF scaled > least THEN scaled ELSE least

\* uint32(Peek() * 2) of initTC.
Datarate(sample, setting) == Converted(sample, setting) \div 50

\* The DB_session has no Qosmode: the literal leaves it 0.
LoadSessions(definition) ==
    [i \in DOMAIN definition.patterns |->
        LET setting == ReadWithFallbacks(Config.setting,
                                         definition.patterns[i], definition.setting)
        IN  [setting |-> setting,
             Datarate |-> Datarate(definition.samples[i], setting),
             Qosmode |-> 0]]

\* LoadDB_benchmarkFromJson returns no error: ParseDRP refuses a scale <= 0.
Loads(definition) ==
    /\ DefinitionValid(definition)
    /\ \A i \in DOMAIN definition.patterns :
           LoadSessions(definition)[i].setting["Scale"] > 0

\* DB_benchmark.Validate: every session's, and there its pattern's.
SessionsValid(sessions) ==
    \A i \in DOMAIN sessions :
        /\ sessions[i].setting["Frequency"] \in 1..100
        /\ sessions[i].setting["Scale"] >= 10

\* TrafficControlStartParams.validate, when the session is about to start.
StartParamsValid(session) ==
    /\ session.Datarate >= 100
    /\ session.setting["Extralatency"] < 10000
    /\ session.setting["Markfree"] <= session.setting["Markfull"]
    /\ session.setting["Markfree"] <= 65535
    /\ session.setting["Markfull"] <= 65535
    /\ session.Qosmode \in 0..2

=============================================================================
