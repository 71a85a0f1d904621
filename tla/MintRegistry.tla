----------------------------- MODULE MintRegistry -----------------------------
(***************************************************************************)
(* The registry of token mints (infra/security/mint-registry.ts): who adds *)
(* and bans mints does so at once, while a validation that has to ask the  *)
(* chain waits for the answer and goes on with the entry it had before.    *)
(***************************************************************************)
EXTENDS Clock

CONSTANTS Mints, Callers,
          CacheTimeout      \* an entry verified longer ago is refreshed

ASSUME RegistryOK == CacheTimeout \in Nat /\ None # "entry"

VARIABLES
    whitelistedMints,   \* None or [tier, lastVerified]
    blacklistedMints,
    validation,         \* None or the validateMint under way
    answer,             \* None or what the caller's last validation said
    ban                 \* history: mints banned by banMint and not allowed since

registryVars == <<now, whitelistedMints, blacklistedMints, validation, answer, ban>>

OperatorTiers == {"trusted", "suspicious"}
LowSupply == 1000   \* base units

RegistryInit ==
    /\ whitelistedMints \in [Mints -> {None, [tier |-> "trusted", lastVerified |-> None]}]
    /\ \E banned \in SUBSET {m \in Mints : whitelistedMints[m] = None} : blacklistedMints = banned
    /\ validation = [v \in Callers |-> None]
    /\ answer = [v \in Callers |-> None]
    /\ ban = {}

Entry(m) == whitelistedMints[m]

(* A refresh under way goes on with the object it holds when another takes *)
(* its place in the map.                                                   *)
Detached(m) ==
    [v \in Callers |->
       IF validation[v] # None /\ validation[v].mint = m /\ validation[v].held = "entry"
       THEN [validation[v] EXCEPT !.held = Entry(m).tier]
       ELSE validation[v]]

Replace(m, entry) ==
    /\ whitelistedMints' = [whitelistedMints EXCEPT ![m] = entry]
    /\ validation' = Detached(m)

Said(v, m, valid, held) ==
    answer' = [answer EXCEPT ![v] = [mint |-> m, valid |-> valid, held |-> held]]

-----------------------------------------------------------------------------
Stale(m) == Entry(m).lastVerified # None /\ now - Entry(m).lastVerified > CacheTimeout

(* validateMint, up to its first await *)
Validate(v, m) ==
    /\ validation[v] = None
    /\ IF m \in blacklistedMints
       THEN Said(v, m, FALSE, "entry") /\ UNCHANGED validation
       ELSE IF Entry(m) # None /\ ~Stale(m)
       THEN Said(v, m, Entry(m).tier # "banned", "entry") /\ UNCHANGED validation
       ELSE /\ validation' = [validation EXCEPT ![v] =
                  [mint |-> m, held |-> IF Entry(m) = None THEN None ELSE "entry"]]
            /\ answer' = [answer EXCEPT ![v] = None]
    /\ UNCHANGED <<now, whitelistedMints, blacklistedMints, ban>>

Waiting(v, refreshing) == validation[v] # None /\ (refreshing <=> validation[v].held # None)

(* What the chain may tell of a mint, by the supplies classifyMint tells   *)
(* apart: a supply of zero passes as one that is not known.                *)
MintMetadata ==
    [hasFreeze : BOOLEAN, hasMintAuthority : BOOLEAN, totalSupply : {0, 1, LowSupply, LowSupply + 1}]

ClassifyMint(metadata) ==
    IF \/ metadata.hasFreeze \/ metadata.hasMintAuthority
       \/ metadata.totalSupply # 0 /\ metadata.totalSupply < LowSupply
    THEN "suspicious" ELSE "standard"

(* fetchMintMetadata fails, finds no mint, or finds one to be classified. *)
Outcomes == {"unreadable"} \cup {ClassifyMint(metadata) : metadata \in MintMetadata}

(* A mint that was unknown gets the tier of its metadata, whatever the     *)
(* registry says of it by now.                                             *)
Classify(v, outcome) ==
    LET m == validation[v].mint
    IN  /\ Waiting(v, FALSE)
        /\ IF outcome = "unreadable"
           THEN /\ validation' = [validation EXCEPT ![v] = None]
                /\ UNCHANGED <<whitelistedMints, ban>>
           ELSE /\ whitelistedMints' =
                      [whitelistedMints EXCEPT ![m] = [tier |-> outcome, lastVerified |-> now]]
                /\ validation' = [Detached(m) EXCEPT ![v] = None]
                /\ ban' = ban \ {m}
        /\ Said(v, m, outcome = "standard", None)
        /\ UNCHANGED <<now, blacklistedMints>>

(* refreshMintMetadata writes into the entry the map has by now and keeps  *)
(* its tier; the answer is that of the entry held since before.            *)
Refreshed(v, read) ==
    LET m    == validation[v].mint
        held == validation[v].held
        tier == IF held = "entry" THEN Entry(m).tier ELSE held
    IN  /\ Waiting(v, TRUE)
        /\ whitelistedMints' = IF read
               THEN [whitelistedMints EXCEPT ![m].lastVerified = now] ELSE whitelistedMints
        /\ Said(v, m, tier # "banned", held)
        /\ validation' = [validation EXCEPT ![v] = None]
        /\ UNCHANGED <<now, blacklistedMints, ban>>

-----------------------------------------------------------------------------
AddMint(m, tier) ==
    /\ Replace(m, [tier |-> tier, lastVerified |-> None])
    /\ blacklistedMints' = blacklistedMints \ {m}
    /\ ban' = ban \ {m}
    /\ UNCHANGED <<now, answer>>

BanListsOnly(m) ==                          \* mutant: only new validations see the list
    /\ blacklistedMints' = blacklistedMints \cup {m}
    /\ ban' = ban \cup {m}
    /\ UNCHANGED <<now, whitelistedMints, validation, answer>>

(* banMint writes into the entry there is. *)
BanMint(m) ==
    /\ blacklistedMints' = blacklistedMints \cup {m}
    /\ whitelistedMints' =
           IF Entry(m) # None
           THEN [whitelistedMints EXCEPT ![m].tier = "banned"]
           ELSE [whitelistedMints EXCEPT ![m] = [tier |-> "banned", lastVerified |-> None]]
    /\ ban' = ban \cup {m}
    /\ UNCHANGED <<now, validation, answer>>

UnbanMint(m) ==
    /\ blacklistedMints' = blacklistedMints \ {m}
    /\ whitelistedMints' =
           IF Entry(m) # None /\ Entry(m).tier = "banned"
           THEN [whitelistedMints EXCEPT ![m].tier = "suspicious"] ELSE whitelistedMints
    /\ ban' = ban \ {m}
    /\ UNCHANGED <<now, validation, answer>>

(* importRegistry, of a registry with one whitelisted mint. *)
ImportRegistry(m, tier, blacklist) ==
    /\ Replace(m, [tier |-> tier, lastVerified |-> None])
    /\ blacklistedMints' = blacklistedMints \cup blacklist
    /\ ban' = ban \ {m}
    /\ UNCHANGED <<now, answer>>

-----------------------------------------------------------------------------
RegistryTick == Tick /\ UNCHANGED <<whitelistedMints, blacklistedMints, validation, answer, ban>>

RegistryNext ==
    \/ \E v \in Callers :
         \/ \E m \in Mints : Validate(v, m)
         \/ \E outcome \in Outcomes : Classify(v, outcome)
         \/ \E read \in BOOLEAN : Refreshed(v, read)
    \/ \E m \in Mints :
         \/ BanMint(m) \/ UnbanMint(m)
         \/ \E tier \in OperatorTiers :
              AddMint(m, tier) \/ \E b \in SUBSET Mints : ImportRegistry(m, tier, b)
    \/ RegistryTick

-----------------------------------------------------------------------------
(* A ban is seen by the validations under way too, which return with an    *)
(* entry they took before it: a banned mint is called valid only where the *)
(* mint was unknown, or its entry replaced, since the validation began.    *)
BanSeen ==
    [][\A v \in Callers :
           answer'[v] # answer[v] /\ answer'[v] # None /\ answer'[v].valid /\ answer'[v].held = "entry" =>
               answer'[v].mint \notin ban]_registryVars
=============================================================================
