------------------------------ MODULE MCControl ------------------------------
(* The inputs of a start for TLC: what a deployment may set, combined with *)
(* stray settings that change nothing, are unusable, or end the start.     *)
(* Keys are given to attached instances only: what they do to a managed    *)
(* one is the registration run's.                                          *)
EXTENDS Supervisor

Attached == [Instances |-> 2, LicenseKeys |-> <<"k1">>]
Managed == [Mode |-> "managed", Instances |-> 2]
Off == "MULTI_WARP_UNIQUE_IPV4" :> "off"

AttachedEnv == {
    <<>>,
    Off @@ ("WARP_LICENSE_KEYS" :> <<"", "k2">>)
        @@ ("WARP_LICENSE_KEY" :> <<"k3">>)}

ManagedEnv == {
    <<>>,
    Off @@ ("MULTI_WARP_FORCE_REREGISTER" :> "true"),
    ("WARP_LICENSE_KEYS" :> <<"">>) @@ ("WARP_ORG" :> "o")
        @@ ("WARP_AUTH_CLIENT_ID" :> "i")
        @@ ("WARP_AUTH_CLIENT_SECRET" :> "s"),
    Off @@ ("MULTI_WARP_INSTANCES" :> "1")
        @@ ("MULTI_WARP_BACKENDS" :> <<"", "h:1">>)}

Strays == {
    <<>>, "WARP_INSTANCES" :> "2", "MULTI_WARP_INSTANCES" :> "x",
    "MULTI_WARP_BASE_PORT" :> "0", "MULTI_WARP_MODE" :> "x",
    "MULTI_WARP_HTTP" :> "bad", "WARP_ORG" :> "p",
    "MULTI_WARP_STRATEGY" :> "rr", "MULTI_WARP_BACKENDS" :> <<"", "">>,
    "MULTI_WARP_DRAIN_TIMEOUT_MS" :> "0", "MULTI_WARP_UNIQUE_STRICT" :> "on",
    "MULTI_WARP_UNIQUE_RECHECK_MAX" :> "0", "MULTI_WARP_CONFIG" :> "gone"}

StartsWith(file, envs) ==
    {[flag |-> "none", env |-> e @@ f, disk |-> ("config.yaml" :> file)] :
        e \in envs, f \in Strays}

AllStarts ==
    StartsWith(Attached, AttachedEnv)
    \cup StartsWith(Managed, ManagedEnv)
    \cup {[flag |-> "f", env |-> "MULTI_WARP_CONFIG" :> "gone",
           disk |-> ("f" :> file)] :
             file \in {Managed, [error |-> "malformed"]}}
    \cup {[flag |-> "none", env |-> "MULTI_WARP_MODE" :> "managed",
           disk |-> ("/etc/multi-warp/config.yaml" :> [Instances |-> 30])]}

AnyConfig == [up : {TRUE}, managed : BOOLEAN, org : BOOLEAN, force : BOOLEAN,
              key : {NoKey, "k1", "k2", "k3"}, unique : BOOLEAN,
              started : BOOLEAN, pooled : BOOLEAN]
=============================================================================
