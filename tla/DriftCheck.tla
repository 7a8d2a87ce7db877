----------------------------- MODULE DriftCheck -----------------------------
(***************************************************************************)
(* scripts/verify-drift.py, a read-only check of the secrets the migration *)
(* and ESO move about, and of the token lifetime on its way from git over  *)
(* the live Deployment to the Coder API.  It reads one object at a time,   *)
(* while everybody else goes on writing, and ends with one verdict.        *)
(*                                                                         *)
(* Every ExternalSecret of the repository is a dataFrom.extract: the       *)
(* data/remoteRef branch of asm_map_for_es has nothing to map.  What ESO   *)
(* reports of itself, the login, the gitlab-ci token and the AI route are  *)
(* answers of any kind.  The two lifetimes (of users and of administrators)*)
(* are read together and compared alike: one stands for both.              *)
(***************************************************************************)
EXTENDS SecretStore

CONSTANTS
    Unreadable,   \* the reads that may fail
    Placeholder,  \* versions that contain a placeholder marker
    Misshapen,    \* versions without the shape of an Anthropic key
    AiSecret, AiKey,  \* coder-ai, ANTHROPIC_API_KEY
    Lifetimes,    \* values CODER_MAX_TOKEN_LIFETIME may have
    Expected,     \* EXPECTED_LIFETIME
    MaxEdits      \* bound on edits of the lifetime by hand

Reads == {"list", "k8s", "asm", "live", "api", "token", "health"}

ASSUME DriftAssumption ==
    /\ Unreadable \subseteq Reads
    /\ Placeholder \subseteq Nat /\ Misshapen \subseteq Nat
    /\ AiSecret \in Secrets /\ AiKey \in Fields
    /\ Expected \in Lifetimes
    /\ MaxEdits \in Nat

VARIABLES
    life,       \* the token lifetime: git (the checkout), live (the
                \* Deployment), api (the running server); edits by hand
    chk,        \* the check: where it is, secrets left, the current one and
                \* its data, the Secrets fetched, the git and live lifetimes
                \* read, and the statuses of its rows other than PASS
    verdict,    \* the last drift row, and the token-life row
    since,      \* history, for what is being compared: the fields that have
                \* agreed and those that have differed, and whether anybody
                \* wrote one of the compared copies by hand
    still,      \* history: nobody but ESO has written since the check started
    vouched     \* history: what the Secrets held when a check exited 0 with no
                \* warning, still; nobody but ESO has written since

checkVars == <<chk, verdict, since, still, vouched>>
driftVars == <<storeVars, life, checkVars>>

Statuses == {"PASS", "WARN", "FAIL"}

Check == [at : {"idle", "list", "secret", "asm", "login", "git", "live",
                "api", "token", "health", "exit"},
          todo : SUBSET Secrets, cur : Secrets \cup {"none"},
          data : Payload, fetched : [Secrets -> Payload],
          git : Lifetimes \cup {"none"}, live : Lifetimes \cup {"none"},
          rows : SUBSET {"WARN", "FAIL"}]

NothingFetched == [s \in Secrets |-> Nothing]

NoCheck == [at |-> "idle", todo |-> {}, cur |-> "none", data |-> Nothing,
            fetched |-> NothingFetched, git |-> "none", live |-> "none",
            rows |-> {}]

NoVerdict == [drift |-> "none", life |-> "none"]

NothingSeen == [agree |-> {}, differ |-> {}, hand |-> FALSE]

DriftInit ==
    /\ life \in [git : Lifetimes, live : Lifetimes, api : Lifetimes, edits : {0}]
    /\ chk = NoCheck /\ verdict = NoVerdict
    /\ since = NothingSeen /\ still = FALSE /\ vouched = NothingFetched

-----------------------------------------------------------------------------
(* Results: rows of one check.                                             *)

Adds(statuses, change) == chk' = [change EXCEPT !.rows = @ \cup (statuses \ {"PASS"})]

CheckDies ==
    /\ chk' = NoCheck /\ verdict' = NoVerdict
    /\ UNCHANGED vouched

CheckStart ==
    /\ chk.at = "idle"
    /\ chk' = [NoCheck EXCEPT !.at = "list"]
    /\ UNCHANGED <<verdict, vouched>>

(* check_external_secrets: the ExternalSecrets and their Ready conditions. *)
(* With none to check the placeholder group has no Anthropic key either.   *)
ListExternalSecrets ==
    /\ chk.at = "list"
    /\ \/ /\ adopted
          /\ \E ready \in {"PASS", "FAIL"} :
                Adds({ready}, [chk EXCEPT !.at = "secret", !.todo = Secrets])
       \/ ~adopted /\ Adds({"WARN", "FAIL"}, [chk EXCEPT !.at = "login"])
       \/ "list" \in Unreadable /\ Adds({"FAIL"}, [chk EXCEPT !.at = "login"])
    /\ UNCHANGED <<verdict, vouched>>

(* The Secret of one ExternalSecret.  Nobody leaves a Secret without keys: *)
(* Nothing is a Secret that is not there.                                  *)
ReadClusterSecret ==
    /\ chk.at = "secret"
    /\ \E s \in chk.todo :
          \/ /\ k8s[s] # Nothing
             /\ chk' = [chk EXCEPT !.at = "asm", !.todo = @ \ {s}, !.cur = s,
                                   !.data = k8s[s], !.fetched[s] = k8s[s]]
          \/ /\ k8s[s] = Nothing \/ "k8s" \in Unreadable
             /\ Adds({"WARN"}, [chk EXCEPT !.todo = @ \ {s}])
    /\ UNCHANGED <<verdict, vouched>>

Compared(data, value) == {f \in Fields : data[f] # 0 /\ value[f] # 0}

(* Mismatches, then ASM errors, then keys of which none is mapped; of a    *)
(* Secret without keys nothing is wrong.                                   *)
DriftStatus(data, value, unresolved) ==
    IF \E f \in Compared(data, value) : data[f] # value[f] THEN "FAIL"
    ELSE IF unresolved \/ (data # Nothing /\ Compared(data, value) = {}) THEN "WARN"
    ELSE "PASS"

(* Mutation: the cache of ASM secrets answers with any of them.            *)
ReadAnyAsmSecret ==
    /\ chk.at = "asm"
    /\ \E s \in Secrets :
          LET status == DriftStatus(chk.data, asm[s], asm[s] = Nothing)
          IN  /\ Adds({status}, [chk EXCEPT !.at = "secret", !.cur = "none", !.data = Nothing])
              /\ verdict' = [verdict EXCEPT !.drift = status]
    /\ UNCHANGED vouched

(* asm_map_for_es, one ASM secret; then the fingerprints are compared.     *)
ReadAsmSecret ==
    /\ chk.at = "asm"
    /\ \E status \in
          {DriftStatus(chk.data, asm[chk.cur], asm[chk.cur] = Nothing)}
          \cup IF "asm" \in Unreadable THEN {DriftStatus(chk.data, Nothing, TRUE)}
               ELSE {} :
          /\ Adds({status}, [chk EXCEPT !.at = "secret", !.cur = "none", !.data = Nothing])
          /\ verdict' = [verdict EXCEPT !.drift = status]
    /\ UNCHANGED vouched

(* Mutation: Secrets that ESO owns are not looked at for placeholders.     *)
PlaceholderRowsSkipped(fetched) == {}

(* check_placeholders: every key fetched, and the shape of the Anthropic   *)
(* key, which must be there.                                               *)
PlaceholderRows(fetched) ==
    LET value == fetched[AiSecret][AiKey]
    IN  {IF \E f \in Fields : fetched[s][f] \in Placeholder \ {0}
         THEN "FAIL" ELSE "PASS" : s \in {t \in Secrets : fetched[t] # Nothing}}
        \cup {IF value = 0 \/ value \in Misshapen THEN "FAIL" ELSE "PASS"}

CheckPlaceholders ==
    /\ chk.at = "secret" /\ chk.todo = {}
    /\ Adds(PlaceholderRows(chk.fetched), [chk EXCEPT !.at = "login"])
    /\ verdict' = NoVerdict
    /\ UNCHANGED vouched

(* read_secret and coder_login: an unreadable file raises, a failed login  *)
(* makes the Coder checks warnings.                                        *)
CoderLogin ==
    /\ chk.at = "login"
    /\ \/ chk' = [chk EXCEPT !.at = "git"] /\ UNCHANGED <<verdict, vouched>>
       \/ Adds({"WARN"}, [chk EXCEPT !.at = "exit"]) /\ UNCHANGED <<verdict, vouched>>
       \/ CheckDies

(* check_token_lifetime: git_values_env.                                   *)
ReadGitLifetime ==
    /\ chk.at = "git"
    /\ chk' = [chk EXCEPT !.at = "live", !.git = life.git]
    /\ UNCHANGED <<verdict, vouched>>

(* check_token_lifetime: live_deployment_env; "none" stands for an error.  *)
ReadLiveLifetime ==
    /\ chk.at = "live"
    /\ \/ chk' = [chk EXCEPT !.at = "api", !.live = life.live]
       \/ "live" \in Unreadable /\ chk' = [chk EXCEPT !.at = "api"]
    /\ UNCHANGED <<verdict, vouched>>

(* Mutation: the live Deployment is not compared.                          *)
LifeStatusOfApi(git, live, api) ==
    IF live = "none" \/ api = "none" THEN "WARN"
    ELSE IF git = Expected /\ api = Expected THEN "PASS"
    ELSE "FAIL"

(* Mutation: what cannot be compared gets a status of its own.             *)
LifeStatusUnknown(git, live, api) ==
    IF live = "none" \/ api = "none" THEN "UNKNOWN"
    ELSE IF {git, live, api} = {Expected} THEN "PASS"
    ELSE "FAIL"

(* All three must be there and be the expected one.                        *)
LifeStatus(git, live, api) ==
    IF live = "none" \/ api = "none" THEN "WARN"
    ELSE IF {git, live, api} = {Expected} THEN "PASS"
    ELSE "FAIL"

(* check_token_lifetime: GET deployment/config, then the row.              *)
ReadApiLifetime ==
    /\ chk.at = "api"
    /\ \E api \in {life.api} \cup (IF "api" \in Unreadable THEN {"none"} ELSE {}) :
          LET status == LifeStatus(chk.git, chk.live, api)
          IN  /\ Adds({status}, [chk EXCEPT !.at = "token", !.git = "none", !.live = "none"])
              /\ verdict' = [verdict EXCEPT !.life = status]
    /\ UNCHANGED vouched

(* check_ci_token: unreadable, missing, unparseable, expired, expiring or  *)
(* fresh; and check_ai_health: no network, an error or a 200.              *)
CheckCiToken ==
    /\ chk.at = "token"
    /\ \E status \in Statuses : Adds({status}, [chk EXCEPT !.at = "health"])
    /\ verdict' = NoVerdict
    /\ UNCHANGED vouched

CheckAiHealth ==
    /\ chk.at = "health"
    /\ \E status \in Statuses : Adds({status}, [chk EXCEPT !.at = "exit"])
    /\ UNCHANGED <<verdict, vouched>>

(* exit 1 if any row is FAIL; without a warning either, it vouches.        *)
CheckExit ==
    /\ chk.at = "exit"
    /\ chk' = NoCheck /\ verdict' = NoVerdict
    /\ vouched' = IF chk.rows = {} /\ still THEN chk.fetched ELSE vouched

CheckStep ==
    \/ ListExternalSecrets \/ ReadClusterSecret \/ ReadAsmSecret
    \/ CheckPlaceholders \/ CoderLogin
    \/ ReadGitLifetime \/ ReadLiveLifetime \/ ReadApiLifetime
    \/ CheckCiToken \/ CheckAiHealth \/ CheckExit

CheckCrash == chk.at # "idle" /\ CheckDies

CheckNext == CheckStart \/ CheckStep \/ CheckCrash

-----------------------------------------------------------------------------
(* The lifetime's other actors: an edit of the checkout, kubectl set env,  *)
(* a helm upgrade, a rollout.                                              *)

EditLifetime ==
    /\ life.edits < MaxEdits
    /\ \E v \in Lifetimes, place \in {"git", "live"} :
          life' = [life EXCEPT ![place] = v, !.edits = @ + 1]

DeployLifetime == life' = [life EXCEPT !.live = life.git]

RollCoder == life' = [life EXCEPT !.api = life.live]

LifeNext == EditLifetime \/ DeployLifetime \/ RollCoder

-----------------------------------------------------------------------------
(* What the histories record of any step.                                  *)

HandWrites == newest' # newest
ValuesWritten == HandWrites \/ asm' # asm

Watching(at) == at \in {"asm", "live", "api"}

Since ==
    since' =
        IF ~Watching(chk'.at) THEN NothingSeen
        ELSE LET before == IF Watching(chk.at) THEN since ELSE NothingSeen
                 s == chk'.cur
                 there == IF chk'.at = "asm"
                          THEN {f \in Fields : k8s'[s][f] # 0}
                          ELSE {}
             IN  [agree |-> before.agree \cup {f \in there : asm'[s][f] = k8s'[s][f]},
                  differ |-> before.differ \cup {f \in there : asm'[s][f] # k8s'[s][f]},
                  hand |-> \/ before.hand
                           \/ /\ Watching(chk.at)
                              /\ \/ chk.at = "asm" /\ HandWrites /\ k8s' # k8s
                                 \/ chk.at # "asm" /\ life'.edits # life.edits]

Still == still' = (chk'.at # "idle" /\ (chk.at = "idle" \/ still) /\ ~ValuesWritten)

-----------------------------------------------------------------------------
Init == StoreInit /\ DriftInit

Others ==
    /\ \/ StoreNext /\ UNCHANGED life
       \/ LifeNext /\ UNCHANGED storeVars
    /\ vouched' = IF ValuesWritten THEN NothingFetched ELSE vouched
    /\ UNCHANGED <<chk, verdict>>

Next ==
    /\ Others \/ (CheckNext /\ UNCHANGED <<storeVars, life>>)
    /\ Since /\ Still

Spec == Init /\ [][Next]_driftVars

-----------------------------------------------------------------------------
(* Properties.                                                             *)

(* The type invariant.                                                     *)
TypeOK ==
    /\ asm \in [Secrets -> Payload] /\ k8s \in [Secrets -> Payload]
    /\ adopted \in BOOLEAN /\ newest \in Nat
    /\ life \in [git : Lifetimes, live : Lifetimes, api : Lifetimes, edits : Nat]
    /\ chk \in Check
    /\ verdict \in [drift : Statuses \cup {"none"}, life : Statuses \cup {"none"}]
    /\ since \in [agree : SUBSET Fields, differ : SUBSET Fields, hand : BOOLEAN]
    /\ still \in BOOLEAN
    /\ vouched \in [Secrets -> Payload]

(* The Secret is read before ASM, and either may change in between.  Even  *)
(* so a MISMATCH names a difference that was really there at some instant  *)
(* between the two reads (a key ASM does not have counts as one), and with *)
(* a PASS every key compared was equal at some such instant, unless the    *)
(* Secret was edited by hand in between, or ESO has since taken the key    *)
(* out of it.                                                              *)
DriftVerdictTrue ==
    [][chk.at = "asm" /\ chk'.at = "secret" =>
         LET value == asm[chk.cur]
             keys == Compared(chk.data, value)
         IN  /\ verdict'.drift = "FAIL" =>
                   \E f \in keys : chk.data[f] # value[f] /\ f \in since.differ
             /\ verdict'.drift = "PASS" =>
                   \/ since.hand
                   \/ \A f \in keys : f \in since.agree \/ k8s[chk.cur][f] = 0]_driftVars

(* "token-life: agreement across git, live deployment env, and the API":   *)
(* the three are read one after the other, and when the row says PASS they *)
(* all are the expected one at that moment, unless the checkout or the     *)
(* Deployment was edited by hand since the first read.                     *)
LifetimeVerdictTrue ==
    [][chk.at = "api" /\ chk'.at = "token" /\ verdict'.life = "PASS" =>
         since.hand \/ {life.git, life.live, life.api} = {Expected}]_driftVars

(* A check that exits 0 without a warning, while nobody but ESO wrote, has *)
(* seen every Secret, found no placeholder and an Anthropic key of the     *)
(* right shape; and until somebody writes, whatever ESO refreshes, neither *)
(* ASM nor the cluster holds another value of any key it saw.              *)
CleanCheckVouches ==
    vouched # NothingFetched =>
        /\ \A s \in Secrets : vouched[s] # Nothing
        /\ vouched[AiSecret][AiKey] \notin Misshapen \cup {0}
        /\ \A s \in Secrets, f \in Fields : vouched[s][f] # 0 =>
              /\ vouched[s][f] \notin Placeholder
              /\ {asm[s][f], k8s[s][f]} \subseteq {0, vouched[s][f]}
=============================================================================
