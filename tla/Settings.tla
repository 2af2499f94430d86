------------------------------ MODULE Settings ------------------------------
(***************************************************************************)
(* How a configuration comes about: crates/skb-core/src/config.rs and the  *)
(* limits the embedder of crates/skb-core/src/embed.rs reports.            *)
(*                                                                         *)
(* A layer (a file, the environment, the command line) is a function from  *)
(* the keys it sets to their values; Bad stands for a value that does not  *)
(* parse.  Names and paths (model, device, namespace, ...) never fail and  *)
(* decide nothing here, so they are left out.                              *)
(***************************************************************************)
EXTENDS Integers, FiniteSets

CONSTANTS
    Bad,        \* a value that is not a number, a mode, or unicode
    NoFile,     \* a configuration file that does not exist
    Defaults,   \* the built-in value of every key
    ModelMax,   \* what the embedder reports when max_input_tokens is 0
    ModelDim,   \* ... and when dimension is 0
    MaxTopK     \* search.rs MAX_TOP_K

Keys == {"dimension", "max_input_tokens", "batch_size", "max_tokens",
         "overlap_tokens", "top_k", "rrf_k", "max_file_mb", "allowed_dirs"}

\* The upper layer wins, key by key.
Overlay(upper, lower) ==
    [k \in DOMAIN upper \cup DOMAIN lower |->
        IF k \in DOMAIN upper THEN upper[k] ELSE lower[k]]

Parses(layer) == \A k \in DOMAIN layer : layer[k] # Bad

\* ./skb.toml when it exists, even if it sets nothing; else the user's file.
ConfigFile(project, user) == IF project # NoFile THEN project ELSE user

\* apply_env_overrides rejects a list of directories without an entry, which
\* would lift the restriction; a file may say so.
EnvAccepted(env) ==
    Parses(env) /\ ("allowed_dirs" \in DOMAIN env => env["allowed_dirs"] # {})

\* Config::load: the file it finds and the environment, or an error.
Loads(project, user, env) ==
    /\ \/ ConfigFile(project, user) = NoFile
       \/ Parses(ConfigFile(project, user))
    /\ EnvAccepted(env)

Loaded(project, user, env) ==
    LET file == ConfigFile(project, user)
    IN  Overlay(env, IF file = NoFile THEN Defaults ELSE Overlay(file, Defaults))

\* What the embedder reports: the ONNX one echoes an explicit setting, the
\* mock has limits of its own.
Reported(kind, c) ==
    [dimension |-> IF kind = "ort" /\ c["dimension"] > 0
                   THEN c["dimension"] ELSE ModelDim,
     max_input_tokens |-> IF kind = "ort" /\ c["max_input_tokens"] > 0
                          THEN c["max_input_tokens"] ELSE ModelMax]

\* The chunk size is not compared with the embedder's limit.
ValidateApart(c) ==
    /\ c["dimension"] # 0 /\ c["max_input_tokens"] # 0 /\ c["batch_size"] # 0
    /\ c["max_tokens"] # 0
    /\ c["overlap_tokens"] < c["max_tokens"]
    /\ c["top_k"] \in 1 .. MaxTopK
    /\ c["rrf_k"] # 0 /\ c["max_file_mb"] # 0

Validate(c) ==
    /\ c["dimension"] # 0 /\ c["max_input_tokens"] # 0 /\ c["batch_size"] # 0
    /\ c["max_tokens"] # 0
    /\ c["overlap_tokens"] < c["max_tokens"]
    /\ c["max_tokens"] <= c["max_input_tokens"]
    /\ c["top_k"] \in 1 .. MaxTopK
    /\ c["rrf_k"] # 0 /\ c["max_file_mb"] # 0

\* resolve_embedding_settings: 0 takes the reported value, an explicit value
\* must equal it, and the result must pass validate.
Filled(c, limits) ==
    [k \in Keys |-> IF k \in DOMAIN limits /\ c[k] = 0 THEN limits[k] ELSE c[k]]

Resolves(c, limits) ==
    /\ \A k \in DOMAIN limits : c[k] \in {0, limits[k]}
    /\ Validate(Filled(c, limits))

=============================================================================
