------------------------------- MODULE Config -------------------------------
(***************************************************************************)
(* The configuration: internal/config/config.go, as operators.             *)
(*                                                                         *)
(* A configuration is a record with the fields that an environment         *)
(* variable can set (the file may set others, which nothing overrides).    *)
(* The environment is a function on the variables set to a non-empty       *)
(* value; a comma-separated value is the sequence of its trimmed parts.    *)
(* Durations are numbers of milliseconds.                                  *)
(***************************************************************************)
EXTENDS Integers, Sequences, SequencesExt, TLC

Default == [
    Instances |-> 10, BasePort |-> 40000, Mode |-> "attach",
    Username |-> "none", Password |-> "none", MaxConnPerIP |-> 500,
    Socks5 |-> "0.0.0.0:11080", HTTP |-> "0.0.0.0:18080",
    Admin |-> "0.0.0.0:9090", LicenseKeys |-> <<>>, Org |-> "none",
    AuthClientID |-> "none", AuthClientSecret |-> "none",
    Strategy |-> "round_robin", IdleTimeout |-> 300000,
    MaxStreamDuration |-> 0, HTTP2 |-> TRUE, DrainTimeout |-> 30000,
    Unique |-> TRUE, MaxInstances |-> 20, MaxAttempts |-> 8,
    ProbeURL |-> "https://api.ipify.org", Strict |-> FALSE,
    RetryBackoff |-> 8000, MaxConcurrentReg |-> 2, Stagger |-> 3000,
    RecheckEvery |-> 60000, RecheckMax |-> 3, Level |-> "info",
    Backends |-> <<>>]

-----------------------------------------------------------------------------
(* Parsing.  A value that its row does not accept leaves the field alone.  *)

(* The numerals the instances use: what strconv.Atoi makes of them. *)
Atoi == [v \in {"-1", "0", "1", "2", "30"} |->
            CASE v = "-1" -> -1 [] v = "0" -> 0 [] v = "1" -> 1
              [] v = "2" -> 2 [] v = "30" -> 30]

parseBool == [v \in {"1", "true", "yes", "on"} |-> TRUE]
             @@ [v \in {"0", "false", "no", "off"} |-> FALSE]

Modes == [v \in {"managed", "attach"} |-> v]

Strategies == [v \in {"round_robin", "least_conn", "sticky"} |-> v]
              @@ ("rr" :> "round_robin") @@ ("least-conn" :> "least_conn")

splitCSV(parts) == SelectSeq(parts, LAMBDA p : p # "")

(* A backend's ID is its position in the list, empty parts counted. *)
BackendList(parts) ==
    SelectSeq([i \in DOMAIN parts |-> [ID |-> i - 1, Addr |-> parts[i]]],
              LAMBDA b : b.Addr # "")

Accepts(kind, v) ==
    CASE kind = "int"      -> v \in DOMAIN Atoi
      [] kind = "pos"      -> v \in DOMAIN Atoi /\ Atoi[v] > 0
      [] kind = "nat"      -> v \in DOMAIN Atoi /\ Atoi[v] >= 0
      [] kind = "bool"     -> v \in DOMAIN parseBool
      [] kind = "mode"     -> v \in DOMAIN Modes
      [] kind = "strategy" -> v \in DOMAIN Strategies
      [] kind = "backends" -> BackendList(v) # <<>>
      [] OTHER             -> TRUE

Parsed(kind, v) ==
    CASE kind \in {"int", "pos", "nat"} -> Atoi[v]
      [] kind = "bool"     -> parseBool[v]
      [] kind = "mode"     -> Modes[v]
      [] kind = "strategy" -> Strategies[v]
      [] kind = "csv"      -> splitCSV(v)
      [] kind = "backends" -> BackendList(v)
      [] OTHER             -> v

-----------------------------------------------------------------------------
(* applyEnv: its overrides in the order of the code.                       *)

Rows == <<
    <<"WARP_INSTANCES", "Instances", "int">>,
    <<"MULTI_WARP_INSTANCES", "Instances", "int">>,
    <<"MULTI_WARP_BASE_PORT", "BasePort", "int">>,
    <<"MULTI_WARP_MODE", "Mode", "mode">>,
    <<"PROXY_USER", "Username", "text">>,
    <<"PROXY_PASS", "Password", "text">>,
    <<"PROXY_MAX_CONN", "MaxConnPerIP", "int">>,
    <<"MULTI_WARP_SOCKS", "Socks5", "text">>,
    <<"MULTI_WARP_HTTP", "HTTP", "text">>,
    <<"MULTI_WARP_ADMIN", "Admin", "text">>,
    <<"WARP_LICENSE_KEY", "LicenseKeys", "csv">>,
    <<"WARP_LICENSE_KEYS", "LicenseKeys", "csv">>,
    <<"WARP_ORG", "Org", "text">>,
    <<"WARP_AUTH_CLIENT_ID", "AuthClientID", "text">>,
    <<"WARP_AUTH_CLIENT_SECRET", "AuthClientSecret", "text">>,
    <<"MULTI_WARP_STRATEGY", "Strategy", "strategy">>,
    <<"MULTI_WARP_STREAM_IDLE_TIMEOUT_MS", "IdleTimeout", "pos">>,
    <<"MULTI_WARP_STREAM_MAX_DURATION_MS", "MaxStreamDuration", "nat">>,
    <<"MULTI_WARP_HTTP2_ENABLED", "HTTP2", "bool">>,
    <<"MULTI_WARP_DRAIN_TIMEOUT_MS", "DrainTimeout", "pos">>,
    <<"MULTI_WARP_UNIQUE_IPV4", "Unique", "bool">>,
    <<"MULTI_WARP_UNIQUE_IPV4_MAX", "MaxInstances", "pos">>,
    <<"MULTI_WARP_UNIQUE_ATTEMPTS", "MaxAttempts", "pos">>,
    <<"MULTI_WARP_UNIQUE_PROBE_URL", "ProbeURL", "text">>,
    <<"MULTI_WARP_UNIQUE_STRICT", "Strict", "bool">>,
    <<"MULTI_WARP_UNIQUE_BACKOFF_MS", "RetryBackoff", "pos">>,
    <<"MULTI_WARP_UNIQUE_MAX_CONCURRENT_REG", "MaxConcurrentReg", "pos">>,
    <<"MULTI_WARP_UNIQUE_STAGGER_MS", "Stagger", "nat">>,
    <<"MULTI_WARP_UNIQUE_RECHECK_MS", "RecheckEvery", "pos">>,
    <<"MULTI_WARP_UNIQUE_RECHECK_MAX", "RecheckMax", "nat">>,
    <<"RUST_LOG", "Level", "text">>,
    <<"MULTI_WARP_BACKENDS", "Backends", "backends">> >>

(* The row takes effect: its variable is set to a value it accepts. *)
Effective(env, row) == row[1] \in DOMAIN env /\ Accepts(row[3], env[row[1]])

Override(c, env, row) ==
    IF Effective(env, row)
    THEN [c EXCEPT ![row[2]] = Parsed(row[3], env[row[1]])]
    ELSE c

(* Mutant of applyEnv: a field once set from the environment is kept, so   *)
(* the first of two aliases wins.                                          *)
applyEnv_FirstWins(c, env) ==
    LET applied[k \in 0..Len(Rows)] ==
            IF k = 0 THEN c
            ELSE Override(applied[k - 1], env, Rows[Len(Rows) + 1 - k])
    IN applied[Len(Rows)]

(* One row after the other. *)
applyEnv(c, env) ==
    LET applied[k \in 0..Len(Rows)] ==
            IF k = 0 THEN c ELSE Override(applied[k - 1], env, Rows[k])
    IN applied[Len(Rows)]

-----------------------------------------------------------------------------
(* Load.  disk maps the paths of readable files to the fields they set, a  *)
(* malformed file to "malformed" under the one field "error".              *)

BackendAddrs(c) ==
    IF c.Backends # <<>> THEN c.Backends
    ELSE [i \in 1..c.Instances |->
             [ID |-> i - 1, Addr |-> <<"127.0.0.1", c.BasePort + i - 1>>]]

(* An address that net.ResolveTCPAddr refuses is written "bad". *)
Validate(c) ==
    /\ c.Instances > 0 \/ c.Backends # <<>>
    /\ c.BasePort # 0
    /\ c.Org # "none" => /\ c.AuthClientID # "none"
                         /\ c.AuthClientSecret # "none"
                         /\ c.LicenseKeys = <<>>
    /\ "bad" \notin {c.Socks5, c.HTTP, c.Admin}

(* -config, then MULTI_WARP_CONFIG, then the two well-known files, the     *)
(* latter only when they exist.                                            *)
ConfigPath(flag, env, disk) ==
    CASE flag # "none" -> flag
      [] flag = "none" /\ "MULTI_WARP_CONFIG" \in DOMAIN env ->
             env["MULTI_WARP_CONFIG"]
      [] OTHER ->
             LET there == SelectSeq(<<"config.yaml",
                                      "/etc/multi-warp/config.yaml">>,
                                    LAMBDA p : p \in DOMAIN disk)
             IN IF there = <<>> THEN "none" ELSE Head(there)

(* What yaml.Unmarshal refuses, of what matters here: text that is not     *)
(* YAML, and a number of instances that is not an integer.                 *)
Decodes(file) ==
    /\ "error" \notin DOMAIN file
    /\ "Instances" \in DOMAIN file => file.Instances \in Int

(* A named file that cannot be read or parsed is an error, never skipped.  *)
loadFileOK(path, disk) ==
    path # "none" => path \in DOMAIN disk /\ Decodes(disk[path])

(* The file is decoded over the defaults. *)
loadFile(path, disk) ==
    IF path = "none" THEN Default
    ELSE [f \in DOMAIN Default |->
             IF f \in DOMAIN disk[path] THEN disk[path][f] ELSE Default[f]]

Settings(in) ==
    applyEnv(loadFile(ConfigPath(in.flag, in.env, in.disk), in.disk), in.env)

LoadOK(in) ==
    /\ loadFileOK(ConfigPath(in.flag, in.env, in.disk), in.disk)
    /\ Validate(Settings(in))

-----------------------------------------------------------------------------
(* What the rest of the program asks of a loaded configuration.            *)

NoKey == "none"

LicenseKeyFor(c, id) ==
    IF c.LicenseKeys = <<>> THEN NoKey
    ELSE c.LicenseKeys[(id % Len(c.LicenseKeys)) + 1]

(* Read from the environment at every call, not from the loaded record. *)
ForceReregister(env) ==
    /\ "MULTI_WARP_FORCE_REREGISTER" \in DOMAIN env
    /\ env["MULTI_WARP_FORCE_REREGISTER"] \in {"1", "true", "yes"}

UniqueEffortActive(c) ==
    LET limit == IF c.MaxInstances <= 0 THEN 20 ELSE c.MaxInstances
        n == IF c.Instances <= 0 THEN Len(c.Backends) ELSE c.Instances
    IN c.Unique /\ n > 0 /\ n <= limit
=============================================================================
