-------------------------- MODULE OidcClientProofs --------------------------
(***************************************************************************)
(* Proofs about OidcClient, for any number of overlapping runs, any faults *)
(* and any bounds.  A run that exits 0 has published the client's secret,  *)
(* unless somebody replaced it since the run read it, and has configured   *)
(* the client, unless a request of its own was refused or somebody edited  *)
(* the client; what is published is a whole pair that Keycloak and the     *)
(* runs really generated, and delivered as SecretPublishing says; and a    *)
(* run replaces a secret or a key only when a request of its own was       *)
(* refused or another actor came between its read and its write.           *)
(***************************************************************************)
EXTENDS OidcClient, TLAPS

(* The invariant holds before the first run.                               *)
LEMMA InitHolds == Init => IInv
<1> SUFFICES ASSUME Init PROVE IInv
  OBVIOUS
<1>1. NoRun \in Run /\ NoRun.at = "idle"
  BY DEF NoRun, Run, Steps
<1>2. SecretTypeOK
  BY DEF Init, SecretInit, SecretTypeOK, Payload, Nothing
<1>3. client \in Client /\ secrets \in Nat /\ ClientHasSecret
  <2>1. CASE /\ client = [up |-> FALSE, secret |-> 0, conf |-> FALSE, mapper |-> "none"]
             /\ secrets = 0
    BY <2>1 DEF Client, ClientHasSecret, Init
  <2>2. CASE /\ client = [up |-> TRUE, secret |-> 1, conf |-> FALSE, mapper |-> "stale"]
             /\ secrets = 1
    BY <2>2 DEF Client, ClientHasSecret, Init
  <2> QED
    BY <2>1, <2>2 DEF Init
<1>4. TypeOK
  BY <1>1, <1>2, <1>3 DEF TypeOK, Init
<1>5. RunHolds(NoRun, {}, client, secrets, asm)
  BY <1>1 DEF RunHolds, CarriesReal, CarriesFresh, HasConfigured, PastClient, Writing
<1>6. PairsStayWhole
  BY <1>3, OidcAssumption DEF PairsStayWhole, Init, SecretInit, Nothing
<1> QED
  BY <1>3, <1>4, <1>5, <1>6 DEF IInv, Init, CleanRunPublishes, CleanRunConfigures

-----------------------------------------------------------------------------
(* Records one field of which changes.                                     *)

(* Giving a client another secret leaves the rest of it.                   *)
LEMMA SecretTyped ==
  ASSUME NEW c \in Client, NEW x \in Nat
  PROVE  /\ [c EXCEPT !.secret = x] \in Client
         /\ [c EXCEPT !.secret = x].secret = x
         /\ [c EXCEPT !.secret = x].up = c.up
         /\ [c EXCEPT !.secret = x].conf = c.conf
         /\ [c EXCEPT !.secret = x].mapper = c.mapper
  BY DEF Client

(* Marking a client configured or edited leaves the rest of it.            *)
LEMMA ConfTyped ==
  ASSUME NEW c \in Client, NEW b \in BOOLEAN
  PROVE  /\ [c EXCEPT !.conf = b] \in Client
         /\ [c EXCEPT !.conf = b].secret = c.secret
         /\ [c EXCEPT !.conf = b].up = c.up
         /\ [c EXCEPT !.conf = b].conf = b
         /\ [c EXCEPT !.conf = b].mapper = c.mapper
  BY DEF Client

(* So does changing its mapper.                                            *)
LEMMA MapperTyped ==
  ASSUME NEW c \in Client, NEW x \in {"none", "stale", "ok"}
  PROVE  /\ [c EXCEPT !.mapper = x] \in Client
         /\ [c EXCEPT !.mapper = x].secret = c.secret
         /\ [c EXCEPT !.mapper = x].up = c.up
         /\ [c EXCEPT !.mapper = x].conf = c.conf
         /\ [c EXCEPT !.mapper = x].mapper = x
  BY DEF Client

(* A run that goes on carries what it carried.                             *)
LEMMA AtTyped ==
  ASSUME NEW s \in Run, NEW to \in Steps
  PROVE  /\ [s EXCEPT !.at = to] \in Run
         /\ [s EXCEPT !.at = to].at = to
         /\ [s EXCEPT !.at = to].seen = s.seen
         /\ [s EXCEPT !.at = to].got = s.got
         /\ [s EXCEPT !.at = to].key = s.key
  BY DEF Run

(* So does one that has learnt a secret or a key.                          *)
LEMMA LearntTyped ==
  ASSUME NEW s \in Run, NEW x \in Nat
  PROVE  /\ [s EXCEPT !.seen = x] \in Run
         /\ [s EXCEPT !.seen = x].at = s.at
         /\ [s EXCEPT !.seen = x].seen = x
         /\ [s EXCEPT !.got = x] \in Run
         /\ [s EXCEPT !.got = x].got = x
         /\ [s EXCEPT !.key = x] \in Run
         /\ [s EXCEPT !.key = x].at = s.at
         /\ [s EXCEPT !.key = x].got = s.got
         /\ [s EXCEPT !.key = x].key = x
  BY DEF Run

-----------------------------------------------------------------------------
(* What others do to a run in state s with the marks m.                    *)

(* The client goes from c to d, and whoever has configured it, or has read *)
(* its secret, need not know.                                              *)
Improves(c, d) ==
    /\ c.up => d.up /\ d.secret = c.secret
    /\ c.conf => d.conf
    /\ ~c.up /\ d.up => d.conf
    /\ c.up /\ c.mapper = "ok" => d.mapper = "ok"
    /\ d.mapper = "stale" => c.mapper = "stale"

(* Such a change concerns nobody.                                          *)
LEMMA OthersHold ==
  ASSUME NEW s \in Run, NEW m, NEW c \in Client, NEW d \in Client,
         NEW g \in Nat, NEW h \in Nat, g <= h, NEW a,
         RunHolds(s, m, c, g, a), Improves(c, d)
  PROVE  RunHolds(s, m, d, h, a)
<1>1. CarriesReal(s, d, h)
  BY DEF RunHolds, CarriesReal, Improves, Run
<1>2. "putClient" \in PastClient /\ Writing \cup {"getKey"} \subseteq PastClient
  BY DEF PastClient, Writing, Steps
<1>3. CarriesFresh(s, m, d, a)
  BY <1>2 DEF RunHolds, CarriesReal, CarriesFresh, Improves
<1>4. {"getSecret", "postSecret", "getKey"} \cup Writing \subseteq PastClient
  BY DEF PastClient, Writing, Steps
<1>5. HasConfigured(s, m, d)
  BY <1>4 DEF RunHolds, CarriesReal, HasConfigured, Improves
<1> QED
  BY <1>1, <1>3, <1>5 DEF RunHolds

(* Somebody replaces the secret of a client that is otherwise no worse.    *)
Replacing(c, d) ==
    /\ c.up /\ d.up
    /\ c.conf => d.conf
    /\ d.mapper = c.mapper

(* Who has read the secret is marked.                                      *)
LEMMA OthersReplaced ==
  ASSUME NEW s \in Run, NEW m, NEW c \in Client, NEW d \in Client,
         NEW g \in Nat, NEW h \in Nat, g <= h, NEW a,
         RunHolds(s, m, c, g, a), Replacing(c, d)
  PROVE  RunHolds(s, Marked(s, m, "stale"), d, h, a)
<1> DEFINE n == Marked(s, m, "stale")
<1>1. /\ s.at \in {"putClient", "getKey"} \cup Writing => "stale" \in n
      /\ s.at = "idle" => n = m
      /\ "misled" \in n <=> "misled" \in m
      /\ "behind" \in n <=> "behind" \in m
      /\ "edited" \in n <=> "edited" \in m
  BY DEF Marked, Exposed, Writing
<1> HIDE DEF n
<1>2. CarriesReal(s, d, h)
  BY DEF RunHolds, CarriesReal, Replacing, Run
<1>3. CarriesFresh(s, n, d, a)
  BY <1>1 DEF RunHolds, CarriesFresh
<1>4. HasConfigured(s, n, d)
  BY <1>1 DEF RunHolds, HasConfigured, Replacing
<1>5. RunHolds(s, n, d, h, a)
  BY <1>2, <1>3, <1>4 DEF RunHolds
<1> QED
  BY <1>5 DEF n

(* An administrator edits the client: who has configured it is marked.     *)
LEMMA OthersEdited ==
  ASSUME NEW s \in Run, NEW m, NEW c \in Client, NEW d \in Client,
         NEW g \in Nat, NEW a, RunHolds(s, m, c, g, a),
         d.up = c.up, d.secret = c.secret
  PROVE  RunHolds(s, Marked(s, m, "edited"), d, g, a)
<1> DEFINE n == Marked(s, m, "edited")
<1>1. /\ s.at \in Steps \ {"idle", "getClient", "putClient"} => "edited" \in n
      /\ s.at = "idle" => n = m
      /\ \A x \in {"misled", "stale", "behind"} : x \in n <=> x \in m
  BY DEF Marked, Exposed
<1> HIDE DEF n
<1>2. CarriesReal(s, d, g) /\ CarriesFresh(s, n, d, a)
  BY <1>1 DEF RunHolds, CarriesReal, CarriesFresh
<1>3. HasConfigured(s, n, d)
  BY <1>1 DEF HasConfigured, PastClient, Writing, Run
<1>4. RunHolds(s, n, d, g, a)
  BY <1>2, <1>3 DEF RunHolds
<1> QED
  BY <1>4 DEF n

(* A run writes ASM: who has looked for the key there is marked.           *)
LEMMA OthersBehind ==
  ASSUME NEW s \in Run, NEW m, NEW c, NEW g, NEW a, NEW b, RunHolds(s, m, c, g, a)
  PROVE  RunHolds(s, Marked(s, m, "behind"), c, g, b)
<1> DEFINE n == Marked(s, m, "behind")
<1>1. /\ s.at \in Writing => "behind" \in n
      /\ s.at = "idle" => n = m
      /\ \A x \in {"misled", "stale", "edited"} : x \in n <=> x \in m
  BY DEF Marked, Exposed, Writing
<1> HIDE DEF n
<1>2. CarriesFresh(s, n, c, b) /\ HasConfigured(s, n, c)
  BY <1>1 DEF RunHolds, CarriesFresh, HasConfigured
<1>3. RunHolds(s, n, c, g, b)
  BY <1>2 DEF RunHolds
<1> QED
  BY <1>3 DEF n

-----------------------------------------------------------------------------
(* What a run does itself.                                                 *)

(* A run goes on with the marks mine, short of writing ASM and replacing   *)
(* the client's secret.                                                    *)
LEMMA RunMoves ==
  ASSUME IInv, NEW r \in Runs, NEW state \in Run, NEW mine \in SUBSET Marks,
         Becomes(r, state), Recalls(r, mine), UNCHANGED <<secretVars, settled>>,
         client' \in Client, ClientHasSecret', Improves(client, client'),
         secrets' \in Nat, secrets <= secrets', keys' \in Nat,
         RunHolds(state, mine, client', secrets', asm)
  PROVE  IInv'
<1>1. /\ TypeOK /\ ClientHasSecret
      /\ client \in Client /\ secrets \in Nat
      /\ run \in [Runs -> Run] /\ past \in [Runs -> SUBSET Marks]
      /\ UNCHANGED <<asm, k8s, app, settled>>
  BY DEF IInv, TypeOK, secretVars
<1>2. /\ \A q \in Runs : run'[q] = IF q = r THEN state ELSE run[q]
      /\ \A q \in Runs : past'[q] = IF q = r THEN mine ELSE past[q]
      /\ run' \in [Runs -> Run] /\ past' \in [Runs -> SUBSET Marks]
  BY <1>1 DEF Becomes, Recalls
<1>3. TypeOK'
  BY <1>1, <1>2 DEF TypeOK, SecretTypeOK
<1>4. ASSUME NEW q \in Runs
      PROVE  RunHolds(run'[q], past'[q], client', secrets', asm')
  <2>1. CASE q = r
    BY <1>1, <1>2, <2>1
  <2>2. CASE q # r
    <3>1. /\ run'[q] = run[q] /\ past'[q] = past[q] /\ run[q] \in Run
          /\ RunHolds(run[q], past[q], client, secrets, asm)
      BY <1>1, <1>2, <2>2 DEF IInv
    <3>2. RunHolds(run[q], past[q], client', secrets', asm)
      BY <1>1, <3>1, OthersHold
    <3> QED
      BY <1>1, <3>1, <3>2
  <2> QED
    BY <2>1, <2>2
<1>5. PairsStayWhole'
  BY <1>1, OidcAssumption DEF IInv, PairsStayWhole, TypeOK, SecretTypeOK, Payload
<1>6. CleanRunPublishes' /\ CleanRunConfigures'
  BY <1>1 DEF IInv, CleanRunPublishes, CleanRunConfigures, ClientHasSecret, Improves
<1> QED
  BY <1>3, <1>4, <1>5, <1>6 DEF IInv

(* A run goes on after replacing the client's secret.                      *)
LEMMA RunReplaces ==
  ASSUME IInv, NEW r \in Runs, NEW state \in Run, NEW mine \in SUBSET Marks,
         Becomes(r, state), Replaces(r, mine), UNCHANGED <<secretVars, keys>>,
         client' \in Client, ClientHasSecret', Replacing(client, client'),
         secrets' \in Nat, secrets <= secrets',
         RunHolds(state, mine, client', secrets', asm)
  PROVE  IInv'
<1>1. /\ TypeOK /\ ClientHasSecret
      /\ client \in Client /\ secrets \in Nat
      /\ run \in [Runs -> Run] /\ past \in [Runs -> SUBSET Marks]
      /\ UNCHANGED <<asm, k8s, app>>
      /\ settled' = settled \ {"secret"}
  BY DEF IInv, TypeOK, secretVars, Replaces
<1>2. /\ \A q \in Runs : run'[q] = IF q = r THEN state ELSE run[q]
      /\ run' \in [Runs -> Run]
  BY <1>1 DEF Becomes
<1>3. past' = [AfterReplace EXCEPT ![r] = mine]
  BY DEF Replaces
<1>4. AfterReplace \in [Runs -> SUBSET Marks]
  BY <1>1 DEF AfterReplace, Marked, Marks
<1>5. /\ past'[r] = mine
      /\ past' \in [Runs -> SUBSET Marks]
      /\ \A q \in Runs \ {r} : past'[q] = Marked(run[q], past[q], "stale")
  BY <1>3, <1>4 DEF AfterReplace
<1>6. TypeOK'
  BY <1>1, <1>2, <1>5 DEF TypeOK, SecretTypeOK
<1>7. ASSUME NEW q \in Runs
      PROVE  RunHolds(run'[q], past'[q], client', secrets', asm')
  <2>1. CASE q = r
    BY <1>1, <1>2, <1>5, <2>1
  <2>2. CASE q # r
    <3>1. /\ run'[q] = run[q] /\ run[q] \in Run
          /\ RunHolds(run[q], past[q], client, secrets, asm)
          /\ past'[q] = Marked(run[q], past[q], "stale")
      BY <1>1, <1>2, <1>5, <2>2 DEF IInv
    <3> QED
      BY <1>1, <3>1, OthersReplaced
  <2> QED
    BY <2>1, <2>2
<1>8. PairsStayWhole'
  BY <1>1, OidcAssumption DEF IInv, PairsStayWhole, TypeOK, SecretTypeOK, Payload
<1>9. CleanRunPublishes' /\ CleanRunConfigures'
  BY <1>1 DEF IInv, CleanRunPublishes, CleanRunConfigures, Replacing
<1> QED
  BY <1>6, <1>7, <1>8, <1>9 DEF IInv

(* A run that has ended carries nothing on.                                *)
LEMMA EndedHolds ==
  ASSUME NEW c, NEW g, NEW a
  PROVE  NoRun \in Run /\ RunHolds(NoRun, {}, c, g, a)
<1>1. NoRun \in Run /\ NoRun.at = "idle"
  BY DEF NoRun, Run, Steps
<1> QED
  BY <1>1 DEF RunHolds, CarriesReal, CarriesFresh, HasConfigured, PastClient, Writing

(* A client that is left alone.                                            *)
LEMMA SameClient ==
  ASSUME IInv, UNCHANGED <<client, secrets, settled>>
  PROVE  /\ client' \in Client /\ ClientHasSecret' /\ Improves(client, client')
         /\ secrets' \in Nat /\ secrets <= secrets'
  BY DEF IInv, TypeOK, ClientHasSecret, Improves

(* A run that dies.                                                        *)
LEMMA RunDies ==
  ASSUME IInv, NEW r \in Runs, Dies(r),
         UNCHANGED <<secretVars, client, secrets, keys, settled>>
  PROVE  IInv'
<1>1. Becomes(r, NoRun) /\ Recalls(r, {}) /\ keys' \in Nat /\ {} \in SUBSET Marks
  BY DEF Dies, Ended, IInv, TypeOK
<1> QED
  BY <1>1, SameClient, EndedHolds, RunMoves

(* A run that goes on, the client left alone.                              *)
LEMMA RunGoes ==
  ASSUME IInv, NEW r \in Runs, NEW to \in Steps, NEW mine \in SUBSET Marks,
         Go(r, to), Recalls(r, mine),
         UNCHANGED <<secretVars, client, secrets, keys, settled>>,
         \A s \in Run : /\ s.at = to /\ s.seen = run[r].seen
                        /\ s.got = run[r].got /\ s.key = run[r].key
                        => RunHolds(s, mine, client, secrets, asm)
  PROVE  IInv'
<1> DEFINE s == [run[r] EXCEPT !.at = to]
<1>1. run[r] \in Run /\ keys' \in Nat
  BY DEF IInv, TypeOK
<1>2. /\ s \in Run /\ s.at = to /\ s.seen = run[r].seen
      /\ s.got = run[r].got /\ s.key = run[r].key
  BY <1>1, AtTyped
<1>3. Becomes(r, s)
  BY DEF Go
<1> HIDE DEF s
<1>4. RunHolds(s, mine, client, secrets, asm)
  BY <1>2
<1>5. RunHolds(s, mine, client', secrets', asm)
  BY <1>4
<1> QED
  BY <1>1, <1>2, <1>3, <1>5, SameClient, RunMoves

(* What a request that goes unnoticed or is answered leaves of the marks.  *)
LEMMA MarksTyped ==
  ASSUME IInv, NEW r \in Runs
  PROVE  /\ past[r] \in SUBSET Marks
         /\ past[r] \cup {"misled"} \in SUBSET Marks
         /\ past[r] \ {"stale"} \in SUBSET Marks
         /\ (past[r] \ {"stale"}) \cup {"misled"} \in SUBSET Marks
         /\ UNCHANGED past => Recalls(r, past[r])
  BY DEF IInv, TypeOK, Marks, Recalls

(* The facts about one run, and about the client, that its steps need.     *)
LEMMA Facts ==
  ASSUME IInv, NEW r \in Runs
  PROVE  /\ run[r] \in Run /\ client \in Client /\ client.secret \in Nat
         /\ secrets \in Nat /\ keys \in Nat /\ asm \in Payload
         /\ past[r] \in SUBSET Marks /\ ClientHasSecret
         /\ CarriesReal(run[r], client, secrets)
         /\ CarriesFresh(run[r], past[r], client, asm)
         /\ HasConfigured(run[r], past[r], client)
  BY DEF IInv, TypeOK, SecretTypeOK, Client, RunHolds

(* ensure_client: GET.                                                     *)
LEMMA GetClientKeeps ==
  ASSUME IInv, NEW r \in Runs, GetClient(r)
  PROVE  IInv'
<1>1. /\ UNCHANGED <<secretVars, client, secrets, keys, settled>>
      /\ "putClient" \in Steps /\ "postClient" \in Steps
  BY DEF GetClient, Steps
<1>2. CASE Dies(r)
  BY <1>1, <1>2, RunDies
<1>3. CASE client.up /\ Becomes(r, [run[r] EXCEPT !.at = "putClient", !.seen = client.secret])
             /\ UNCHANGED past
  <2> DEFINE t == [run[r] EXCEPT !.at = "putClient"]
             s == [t EXCEPT !.seen = client.secret]
  <2>1. s \in Run /\ s.at = "putClient" /\ s.seen = client.secret
    <3>1. t \in Run /\ t.at = "putClient" /\ client.secret \in Nat
      BY <1>1, Facts, AtTyped
    <3> HIDE DEF t
    <3> QED
      BY <3>1, LearntTyped
  <2>2. Becomes(r, s)
    BY <1>3
  <2> HIDE DEF s
  <2>3. client.secret \in 1 .. secrets
    BY <1>3, Facts DEF ClientHasSecret
  <2>4. RunHolds(s, past[r], client, secrets, asm)
    BY <1>3, <2>1, <2>3
    DEF RunHolds, CarriesReal, CarriesFresh, HasConfigured, PastClient, Writing
  <2>5. RunHolds(s, past[r], client', secrets', asm) /\ keys' \in Nat
    BY <1>1, <2>4, Facts
  <2> QED
    BY <1>1, <1>3, <2>1, <2>2, <2>5, MarksTyped, SameClient, RunMoves
<1>4. ASSUME NEW mine \in SUBSET Marks, Go(r, "postClient"), Recalls(r, mine),
             "misled" \in mine \/ ~client.up
      PROVE  IInv'
  <2>1. \A s \in Run : s.at = "postClient" => RunHolds(s, mine, client, secrets, asm)
    BY <1>4 DEF RunHolds, CarriesReal, CarriesFresh, HasConfigured, PastClient, Writing
  <2> QED
    BY <1>1, <1>4, <2>1, RunGoes
<1>5. CASE ~client.up /\ Go(r, "postClient") /\ UNCHANGED past
  BY <1>4, <1>5, MarksTyped
<1>6. CASE Go(r, "postClient") /\ Misled(r)
  BY <1>4, <1>6, MarksTyped DEF Misled
<1> QED
  BY <1>2, <1>3, <1>5, <1>6 DEF GetClient

(* ensure_client: PUT, of what the GET returned.                           *)
LEMMA PutClientKeeps ==
  ASSUME IInv, NEW r \in Runs, PutClient(r)
  PROVE  IInv'
<1> DEFINE s == [run[r] EXCEPT !.at = "getMapper"]
           mine == past[r] \ {"stale"}
<1>1. /\ s \in Run /\ s.at = "getMapper" /\ Becomes(r, s)
  BY Facts, AtTyped DEF PutClient, Go, Steps
<1>2. /\ client.up /\ run[r].seen \in 1 .. secrets
      /\ UNCHANGED <<secretVars, secrets, keys>>
      /\ "stale" \notin past[r] => run[r].seen = client.secret
  BY Facts DEF PutClient, CarriesReal, CarriesFresh, PastClient, Steps
<1> HIDE DEF s
<1>3. ASSUME NEW m, NEW c, c.up, "misled" \in m \/ c.conf
      PROVE  RunHolds(s, m, c, secrets, asm)
  BY <1>1, <1>3 DEF RunHolds, CarriesReal, CarriesFresh, HasConfigured, PastClient, Writing
<1>4. CASE /\ client' = [client EXCEPT !.conf = TRUE, !.secret = run[r].seen]
           /\ \/ run[r].seen = client.secret /\ Recalls(r, mine) /\ UNCHANGED settled
              \/ Replaces(r, mine)
  <2> DEFINE c == [client EXCEPT !.conf = TRUE]
  <2>1. /\ c \in Client /\ c.up /\ c.conf /\ c.mapper = client.mapper
        /\ c.secret = client.secret
    BY <1>2, Facts, ConfTyped
  <2>2. client' = [c EXCEPT !.secret = run[r].seen]
    BY <1>4
  <2> HIDE DEF c
  <2>3. /\ client' \in Client /\ client'.up /\ client'.conf
        /\ client'.mapper = client.mapper /\ client'.secret = run[r].seen
    BY <1>2, <2>1, <2>2, Facts, SecretTyped
  <2>4. ClientHasSecret'
    BY <1>2, <2>3, Facts DEF ClientHasSecret
  <2>5. RunHolds(s, mine, client', secrets', asm)
    BY <1>2, <1>3, <2>3
  <2>6. mine \in SUBSET Marks /\ secrets' \in Nat /\ secrets <= secrets' /\ keys' \in Nat
    BY <1>2, Facts
  <2> HIDE DEF mine
  <2>7. CASE run[r].seen = client.secret /\ Recalls(r, mine) /\ UNCHANGED settled
    <3>1. Improves(client, client')
      BY <1>2, <2>3, <2>7 DEF Improves
    <3> QED
      BY <1>1, <1>2, <2>3, <2>4, <2>5, <2>6, <2>7, <3>1, RunMoves
  <2>8. CASE Replaces(r, mine)
    <3>1. Replacing(client, client')
      BY <1>2, <2>3 DEF Replacing
    <3> QED
      BY <1>1, <1>2, <2>3, <2>4, <2>5, <2>6, <2>8, <3>1, RunReplaces
  <2> QED
    BY <1>4, <2>7, <2>8
<1>5. CASE UNCHANGED <<client, settled>> /\ Recalls(r, mine \cup {"misled"})
  <2>1. mine \cup {"misled"} \in SUBSET Marks /\ keys' \in Nat
    BY <1>2, Facts DEF Marks
  <2>2. RunHolds(s, mine \cup {"misled"}, client', secrets', asm)
    BY <1>2, <1>3, <1>5
  <2> HIDE DEF mine
  <2> QED
    BY <1>1, <1>2, <1>5, <2>1, <2>2, SameClient, RunMoves
<1> QED
  BY <1>4, <1>5 DEF PutClient

(* ensure_client: POST.                                                    *)
LEMMA PostClientKeeps ==
  ASSUME IInv, NEW r \in Runs, PostClient(r)
  PROVE  IInv'
<1> DEFINE s == [run[r] EXCEPT !.at = "regetClient"]
<1>1. s \in Run /\ s.at = "regetClient" /\ Becomes(r, s)
  BY Facts, AtTyped DEF PostClient, Go, Steps
<1> HIDE DEF s
<1>2. UNCHANGED <<secretVars, keys, settled>> /\ keys' \in Nat /\ secrets \in Nat
  BY Facts DEF PostClient
<1>3. ASSUME NEW m, NEW c, NEW g, "misled" \in m \/ "edited" \in m \/ c.conf
      PROVE  RunHolds(s, m, c, g, asm)
  BY <1>1, <1>3 DEF RunHolds, CarriesReal, CarriesFresh, HasConfigured, PastClient, Writing
<1>4. CASE /\ ~client.up /\ secrets' = secrets + 1 /\ UNCHANGED past
           /\ client' = [up |-> TRUE, secret |-> secrets + 1,
                         conf |-> TRUE, mapper |-> "none"]
  <2>1. /\ client' \in Client /\ client'.up /\ client'.conf
        /\ client'.secret = secrets + 1 /\ client'.mapper = "none"
    BY <1>2, <1>4 DEF Client
  <2>2. secrets' \in Nat /\ secrets <= secrets' /\ ClientHasSecret'
    BY <1>2, <1>4, <2>1 DEF ClientHasSecret
  <2>3. Improves(client, client')
    BY <1>4, <2>1 DEF Improves
  <2>4. RunHolds(s, past[r], client', secrets', asm)
    BY <1>3, <2>1
  <2> QED
    BY <1>1, <1>2, <1>4, <2>1, <2>2, <2>3, <2>4, MarksTyped, RunMoves
<1>5. ASSUME NEW mine \in SUBSET Marks, Recalls(r, mine), UNCHANGED <<client, secrets>>,
             "misled" \in mine \/ "edited" \in mine \/ client.conf
      PROVE  IInv'
  <2>1. RunHolds(s, mine, client', secrets', asm)
    BY <1>3, <1>5
  <2> QED
    BY <1>1, <1>2, <1>5, <2>1, SameClient, RunMoves
<1>6. CASE client.up /\ UNCHANGED <<client, secrets, past>>
  <2>1. "misled" \in past[r] \/ "edited" \in past[r] \/ client.conf
    BY <1>6, Facts DEF HasConfigured, PostClient
  <2> QED
    BY <1>5, <1>6, <2>1, MarksTyped
<1>7. CASE Misled(r) /\ UNCHANGED <<client, secrets>>
  BY <1>5, <1>7, MarksTyped DEF Misled
<1> QED
  BY <1>4, <1>6, <1>7 DEF PostClient

(* ensure_client: the client once more.                                    *)
LEMMA RegetClientKeeps ==
  ASSUME IInv, NEW r \in Runs, RegetClient(r)
  PROVE  IInv'
<1>1. UNCHANGED <<secretVars, client, secrets, keys, settled>> /\ "getMapper" \in Steps
  BY DEF RegetClient, Steps
<1>2. CASE Dies(r)
  BY <1>1, <1>2, RunDies
<1>3. CASE client.up /\ Go(r, "getMapper") /\ UNCHANGED past
  <2>1. "misled" \in past[r] \/ "edited" \in past[r] \/ client.conf
    BY Facts DEF HasConfigured, RegetClient
  <2>2. \A s \in Run : s.at = "getMapper" => RunHolds(s, past[r], client, secrets, asm)
    BY <1>3, <2>1
    DEF RunHolds, CarriesReal, CarriesFresh, HasConfigured, PastClient, Writing
  <2> QED
    BY <1>1, <1>3, <2>2, MarksTyped, RunGoes
<1> QED
  BY <1>2, <1>3 DEF RegetClient

(* ensure_mapper keeps the invariant.                                      *)
LEMMA EnsureMapperKeeps ==
  ASSUME IInv, NEW r \in Runs, GetMapper(r) \/ PutMapper(r) \/ PostMapper(r)
  PROVE  IInv'
<1>1. /\ client.up /\ run[r].at \in PastClient \ {"putClient"}
      /\ UNCHANGED <<secretVars, secrets, keys, settled>>
      /\ "putMapper" \in Steps /\ "postMapper" \in Steps /\ "getSecret" \in Steps
  BY Facts DEF GetMapper, PutMapper, PostMapper, CarriesReal, PastClient, Steps
<1>2. "misled" \in past[r] \/ "edited" \in past[r] \/ client.conf
  BY <1>1, Facts DEF HasConfigured
<1>3. ASSUME NEW s \in Run, NEW m, NEW c, c.up,
             s.at \in {"putMapper", "postMapper", "getSecret"},
             \/ "misled" \in m
             \/ "edited" \in m
             \/ /\ c.conf
                /\ s.at = "postMapper" => c.mapper # "stale"
                /\ s.at = "getSecret" => c.mapper = "ok"
      PROVE  RunHolds(s, m, c, secrets, asm)
  BY <1>3 DEF RunHolds, CarriesReal, CarriesFresh, HasConfigured, PastClient, Writing
<1>4. CASE GetMapper(r)
  <2>1. UNCHANGED client
    BY <1>4 DEF GetMapper
  <2>2. CASE Dies(r)
    BY <1>1, <2>1, <2>2, RunDies
  <2>3. ASSUME NEW to \in {"putMapper", "postMapper"}, NEW mine \in SUBSET Marks,
               Go(r, to), Recalls(r, mine),
               "misled" \in mine \/ "edited" \in mine \/
                 (client.conf /\ (to = "postMapper" => client.mapper # "stale"))
        PROVE  IInv'
    <3>1. \A s \in Run : s.at = to => RunHolds(s, mine, client, secrets, asm)
      BY <1>1, <1>3, <2>3
    <3>2. to \in Steps
      BY <1>1
    <3> QED
      BY <1>1, <2>1, <2>3, <3>1, <3>2, RunGoes
  <2>4. CASE Go(r, "putMapper") /\ UNCHANGED past
    BY <1>2, <2>3, <2>4, MarksTyped
  <2>5. CASE client.mapper = "none" /\ Go(r, "postMapper") /\ UNCHANGED past
    BY <1>2, <2>3, <2>5, MarksTyped
  <2>6. CASE Go(r, "postMapper") /\ Misled(r)
    BY <2>3, <2>6, MarksTyped DEF Misled
  <2> QED
    BY <1>4, <2>2, <2>4, <2>5, <2>6 DEF GetMapper
<1>5. CASE PutMapper(r) \/ PostMapper(r)
  <2> DEFINE s == [run[r] EXCEPT !.at = "getSecret"]
  <2>1. s \in Run /\ s.at = "getSecret" /\ Becomes(r, s)
    BY <1>1, <1>5, Facts, AtTyped DEF PutMapper, PostMapper, Go
  <2> HIDE DEF s
  <2>2. secrets' \in Nat /\ secrets <= secrets' /\ keys' \in Nat
    BY <1>1, Facts
  <2>3. CASE client' = [client EXCEPT !.mapper = "ok"] /\ UNCHANGED past
    <3>1. /\ client' \in Client /\ client'.up /\ client'.secret = client.secret
          /\ client'.conf = client.conf /\ client'.mapper = "ok"
      BY <1>1, <2>3, Facts, MapperTyped
    <3>2. ClientHasSecret' /\ Improves(client, client')
      BY <1>1, <3>1, Facts DEF ClientHasSecret, Improves
    <3>3. RunHolds(s, past[r], client', secrets', asm)
      BY <1>1, <1>2, <1>3, <2>1, <3>1
    <3> QED
      BY <1>1, <2>1, <2>2, <2>3, <3>1, <3>2, <3>3, MarksTyped, RunMoves
  <2>4. ASSUME NEW mine \in SUBSET Marks, Recalls(r, mine), UNCHANGED client,
               "misled" \in mine \/ "edited" \in mine \/ (client.conf /\ client.mapper = "ok")
        PROVE  IInv'
    <3>1. RunHolds(s, mine, client', secrets', asm)
      BY <1>1, <1>3, <2>1, <2>4
    <3>2. UNCHANGED <<client, secrets, settled>>
      BY <1>1, <2>4
    <3> QED
      BY <1>1, <2>1, <2>2, <2>4, <3>1, <3>2, SameClient, RunMoves
  <2>5. CASE PostMapper(r) /\ client.mapper # "none" /\ UNCHANGED <<client, past>>
    <3>1. "misled" \in past[r] \/ "edited" \in past[r] \/ client.mapper = "ok"
      BY <2>5, Facts DEF HasConfigured, PostMapper, Client
    <3> QED
      BY <1>2, <2>4, <2>5, <3>1, MarksTyped
  <2>6. CASE UNCHANGED client /\ Misled(r)
    BY <2>4, <2>6, MarksTyped DEF Misled
  <2> QED
    BY <1>5, <2>3, <2>5, <2>6 DEF PutMapper, PostMapper
<1> QED
  BY <1>4, <1>5

(* The run knows the client's secret as it is.                             *)
LEMMA LearnsHolds ==
  ASSUME NEW s \in Run, NEW x \in Nat, NEW m, NEW c, NEW g \in Nat, NEW a,
         c.up, x = c.secret, x \in 1 .. g, HasKey \/ a["key"] \in Nat,
         s.at = (IF HasKey THEN "getKey" ELSE "describe"), s.got = x,
         "misled" \in m \/ "edited" \in m \/ (c.conf /\ c.mapper = "ok")
  PROVE  RunHolds(s, m, c, g, a)
<1>1. CASE HasKey
  BY <1>1 DEF RunHolds, CarriesReal, CarriesFresh, HasConfigured, PastClient, Writing
<1>2. CASE ~HasKey
  BY <1>2 DEF RunHolds, CarriesReal, CarriesFresh, HasConfigured, PastClient, Writing
<1> QED
  BY <1>1, <1>2

(* client_secret keeps the invariant.                                      *)
LEMMA ClientSecretKeeps ==
  ASSUME IInv, NEW r \in Runs, GetSecret(r) \/ PostSecret(r)
  PROVE  IInv'
<1>1. /\ client.up /\ client.secret \in 1 .. secrets /\ secrets \in Nat
      /\ UNCHANGED <<secretVars, keys>> /\ keys' \in Nat
      /\ run[r].at \in {"getSecret", "postSecret"} /\ asm["key"] \in Nat
  BY Facts, OidcAssumption
  DEF GetSecret, PostSecret, CarriesReal, PastClient, Steps, ClientHasSecret, Payload
<1>2. "misled" \in past[r] \/ "edited" \in past[r] \/ (client.conf /\ client.mapper = "ok")
  BY <1>1, Facts DEF HasConfigured, PastClient, Steps
<1>3. ASSUME NEW x \in Nat, Learns(r, x)
      PROVE  \E s \in Run : /\ s.at = (IF HasKey THEN "getKey" ELSE "describe")
                            /\ s.got = x /\ Becomes(r, s)
  <2> DEFINE to == IF HasKey THEN "getKey" ELSE "describe"
             t == [run[r] EXCEPT !.got = x]
             s == [t EXCEPT !.at = to]
  <2>1. to \in Steps /\ t \in Run /\ t.got = x
    BY Facts, LearntTyped DEF Steps
  <2>2. Becomes(r, s)
    BY <1>3 DEF Learns
  <2> HIDE DEF to, t
  <2>3. s \in Run /\ s.at = to /\ s.got = x
    BY <2>1, AtTyped
  <2> HIDE DEF s
  <2>4. \E q \in Run : q.at = to /\ q.got = x /\ Becomes(r, q)
    BY <2>2, <2>3
  <2> QED
    BY <2>4 DEF to
<1>4. CASE GetSecret(r)
  <2>1. UNCHANGED <<client, secrets, settled>>
    BY <1>4 DEF GetSecret
  <2>2. CASE Learns(r, client.secret) /\ UNCHANGED past
    <3>1. PICK s \in Run : /\ s.at = (IF HasKey THEN "getKey" ELSE "describe")
                           /\ s.got = client.secret /\ Becomes(r, s)
      BY <1>1, <1>3, <2>2
    <3>2. RunHolds(s, past[r], client, secrets, asm)
      BY <1>1, <1>2, <3>1, Facts, LearnsHolds
    <3>3. RunHolds(s, past[r], client', secrets', asm)
      BY <2>1, <3>2
    <3> QED
      BY <1>1, <2>1, <2>2, <3>1, <3>3, MarksTyped, SameClient, RunMoves
  <2>3. CASE Go(r, "postSecret") /\ Misled(r)
    <3>1. \A s \in Run : s.at = "postSecret"
             => RunHolds(s, past[r] \cup {"misled"}, client, secrets, asm)
      BY <1>1 DEF RunHolds, CarriesReal, CarriesFresh, HasConfigured, Writing
    <3>2. "postSecret" \in Steps
      BY DEF Steps
    <3> QED
      BY <1>1, <2>1, <2>3, <3>1, <3>2, MarksTyped, RunGoes DEF Misled
  <2> QED
    BY <1>4, <2>2, <2>3 DEF GetSecret
<1>5. CASE PostSecret(r)
  <2>1. CASE Dies(r) /\ UNCHANGED <<client, secrets, settled>>
    BY <1>1, <2>1, RunDies
  <2>2. CASE secrets' = secrets + 1 /\ client' = [client EXCEPT !.secret = secrets + 1]
    <3>1. /\ client' \in Client /\ client'.up /\ client'.secret = secrets + 1
          /\ client'.conf = client.conf /\ client'.mapper = client.mapper
          /\ secrets' \in Nat /\ secrets <= secrets' /\ secrets + 1 \in 1 .. secrets'
      BY <1>1, <2>2, Facts, SecretTyped
    <3>2. CASE Learns(r, secrets + 1) /\ Replaces(r, past[r])
      <4>1. PICK s \in Run : /\ s.at = (IF HasKey THEN "getKey" ELSE "describe")
                             /\ s.got = secrets + 1 /\ Becomes(r, s)
        BY <1>1, <1>3, <3>2
      <4>2. RunHolds(s, past[r], client', secrets', asm)
        BY <1>1, <1>2, <3>1, <4>1, LearnsHolds
      <4>3. ClientHasSecret' /\ Replacing(client, client')
        BY <1>1, <3>1, <3>2, <2>2 DEF ClientHasSecret, Replacing, Replaces
      <4> QED
        BY <1>1, <3>1, <3>2, <4>1, <4>2, <4>3, MarksTyped, RunReplaces
    <3>3. CASE Ended(r) /\ Replaces(r, {})
      <4>1. Becomes(r, NoRun) /\ {} \in SUBSET Marks
        BY <3>3 DEF Ended
      <4>2. ClientHasSecret' /\ Replacing(client, client')
        BY <1>1, <3>1, <3>3, <2>2 DEF ClientHasSecret, Replacing, Replaces
      <4> QED
        BY <1>1, <3>1, <3>3, <4>1, <4>2, EndedHolds, RunReplaces
    <3> QED
      BY <1>5, <2>1, <2>2, <3>2, <3>3 DEF PostSecret
  <2> QED
    BY <1>5, <2>1, <2>2 DEF PostSecret
<1> QED
  BY <1>4, <1>5

(* Where a run is that is about to write ASM.                              *)
LEMMA WritesHolds ==
  ASSUME NEW s \in Run, NEW t \in Run, NEW m, NEW c, NEW g \in Nat, NEW a,
         RunHolds(s, m, c, g, a), s.at \in Writing \cup {"getKey"},
         t.at \in Writing, t.got = s.got, HasKey => t.key # 0,
         HasKey /\ "misled" \notin m => a["key"] \in {0, t.key} \/ "behind" \in m
  PROVE  RunHolds(t, m, c, g, a)
<1>1. /\ Writing \cup {"getKey"} \subseteq PastClient \ {"putClient"}
      /\ t.at \notin {"idle", "putClient", "postSecret", "regetClient", "postClient", "postMapper"}
  BY DEF Writing, PastClient, Steps
<1>2. CarriesReal(t, c, g)
  BY <1>1 DEF RunHolds, CarriesReal
<1>3. CarriesFresh(t, m, c, a)
  BY <1>1 DEF RunHolds, CarriesFresh
<1>4. HasConfigured(t, m, c)
  BY <1>1 DEF RunHolds, HasConfigured
<1> QED
  BY <1>2, <1>3, <1>4 DEF RunHolds

(* Reading or generating the key keeps the invariant.                      *)
LEMMA GetKeyKeeps ==
  ASSUME IInv, NEW r \in Runs, GetKey(r)
  PROVE  IInv'
<1>1. /\ UNCHANGED <<secretVars, client, secrets, settled>>
      /\ run[r].at = "getKey" /\ keys \in Nat /\ asm["key"] \in Nat
      /\ "describe" \in Steps
  BY Facts, OidcAssumption DEF GetKey, Payload, Steps
<1>2. CASE Dies(r) /\ UNCHANGED keys
  BY <1>1, <1>2, RunDies
<1>3. ASSUME NEW k \in Nat, k # 0, keys' \in Nat, NEW mine \in SUBSET Marks,
             Becomes(r, [run[r] EXCEPT !.at = "describe", !.key = k]), Recalls(r, mine),
             "misled" \in mine \/ asm["key"] \in {0, k},
             mine \in {past[r], past[r] \cup {"misled"}}
      PROVE  IInv'
  <2> DEFINE t == [run[r] EXCEPT !.at = "describe"]
             s == [t EXCEPT !.key = k]
  <2>1. run[r] \in Run /\ RunHolds(run[r], past[r], client, secrets, asm) /\ secrets \in Nat
    BY Facts DEF IInv
  <2>2. s \in Run /\ s.at = "describe" /\ s.key = k /\ s.got = run[r].got
    <3>1. t \in Run /\ t.at = "describe" /\ t.got = run[r].got
      BY <1>1, <2>1, AtTyped
    <3> HIDE DEF t
    <3> QED
      BY <3>1, LearntTyped
  <2>3. Becomes(r, s)
    BY <1>3
  <2> HIDE DEF s
  <2>4. RunHolds(run[r], mine, client, secrets, asm)
    BY <1>1, <1>3, <2>1 DEF RunHolds, CarriesReal, CarriesFresh, HasConfigured
  <2>5. RunHolds(s, mine, client, secrets, asm)
    BY <1>1, <1>3, <2>1, <2>2, <2>4, WritesHolds DEF Writing
  <2>6. RunHolds(s, mine, client', secrets', asm)
    BY <1>1, <2>5
  <2> QED
    BY <1>1, <1>3, <2>2, <2>3, <2>6, SameClient, RunMoves
<1>4. CASE /\ asm["key"] # 0 /\ UNCHANGED <<keys, past>>
           /\ Becomes(r, [run[r] EXCEPT !.at = "describe", !.key = asm["key"]])
  <2>1. keys' \in Nat /\ past[r] \in SUBSET Marks /\ Recalls(r, past[r])
    BY <1>1, <1>4, MarksTyped
  <2> QED
    BY <1>1, <1>3, <1>4, <2>1
<1>5. ASSUME keys' = keys + 1, NEW mine \in {past[r], past[r] \cup {"misled"}},
             Recalls(r, mine), "misled" \in mine \/ asm["key"] = 0,
             Becomes(r, [run[r] EXCEPT !.at = "describe", !.key = keys + 1])
      PROVE  IInv'
  <2>1. keys + 1 \in Nat /\ keys + 1 # 0 /\ mine \in SUBSET Marks
    BY <1>1, <1>5, MarksTyped
  <2> QED
    BY <1>3, <1>5, <2>1
<1>6. CASE /\ keys' = keys + 1
           /\ asm["key"] = 0 /\ UNCHANGED past
           /\ Becomes(r, [run[r] EXCEPT !.at = "describe", !.key = keys + 1])
  BY <1>5, <1>6, MarksTyped
<1>7. CASE /\ keys' = keys + 1 /\ Misled(r)
           /\ Becomes(r, [run[r] EXCEPT !.at = "describe", !.key = keys + 1])
  BY <1>5, <1>7, MarksTyped DEF Misled
<1> QED
  BY <1>2, <1>4, <1>6, <1>7 DEF GetKey

(* describe-secret keeps the invariant.                                    *)
LEMMA DescribeKeeps ==
  ASSUME IInv, NEW r \in Runs, Describe(r)
  PROVE  IInv'
<1>1. /\ UNCHANGED <<secretVars, client, secrets, keys, past, settled>>
      /\ run[r].at = "describe"
      /\ run[r] \in Run /\ RunHolds(run[r], past[r], client, secrets, asm) /\ secrets \in Nat
  BY Facts DEF Describe, IInv
<1>2. ASSUME NEW to \in {"putValue", "createSecret"}, Go(r, to) PROVE IInv'
  <2>1. to \in Writing /\ to \in Steps /\ "describe" \in Writing
    BY DEF Writing, Steps
  <2>2. /\ HasKey => run[r].key # 0
        /\ HasKey /\ "misled" \notin past[r] /\ "behind" \notin past[r]
             => asm["key"] \in {0, run[r].key}
    BY <1>1, <2>1 DEF RunHolds, CarriesReal, CarriesFresh
  <2>3. \A s \in Run : s.at = to /\ s.got = run[r].got /\ s.key = run[r].key
           => RunHolds(s, past[r], client, secrets, asm)
    BY <1>1, <2>1, <2>2, WritesHolds
  <2> QED
    BY <1>1, <1>2, <2>1, <2>3, MarksTyped, RunGoes
<1> QED
  BY <1>2 DEF Describe

-----------------------------------------------------------------------------
(* Writing ASM: the pair the run carries is whole, the secret is the       *)
(* client's unless the run is marked, and who has looked for the key in    *)
(* ASM is marked.                                                          *)
LEMMA RunPublishes ==
  ASSUME IInv, NEW r \in Runs, run[r].at \in Writing, Publishes(r)
  PROVE  IInv'
<1>1. /\ TypeOK /\ ClientHasSecret /\ PairsStayWhole
      /\ run[r] \in Run /\ run \in [Runs -> Run]
      /\ past \in [Runs -> SUBSET Marks] /\ NoRun \in Run
      /\ settled \subseteq {"secret", "conf"}
  BY EndedHolds DEF IInv, TypeOK
<1>2. /\ run[r].got \in 1 .. secrets
      /\ HasKey => run[r].key # 0
      /\ run[r].got \in Nat /\ run[r].key \in Nat
      /\ client.up
      /\ "stale" \notin past[r] => run[r].got = client.secret
      /\ past[r] \cap {"misled", "edited"} = {} => client.conf /\ client.mapper = "ok"
  <2>1. Writing \subseteq PastClient \ {"putClient"}
    BY DEF Writing, PastClient, Steps
  <2> QED
    BY <1>1, <2>1, Facts DEF CarriesReal, CarriesFresh, HasConfigured, Run
<1>3. /\ asm' \in Payload
      /\ asm'["secret"] = run[r].got
      /\ asm'["key"] = run[r].key
  BY <1>2, OidcAssumption DEF Publishes, Payload, Nothing
<1>4. /\ run' = [run EXCEPT ![r] = NoRun]
      /\ past' = [AfterWrite EXCEPT ![r] = {}]
      /\ UNCHANGED <<k8s, app, client, secrets, keys>>
  BY DEF Publishes, Ended, Becomes
<1>5. AfterWrite \in [Runs -> SUBSET Marks]
  BY <1>1 DEF AfterWrite, Marked, Marks
<1>6. /\ past' \in [Runs -> SUBSET Marks] /\ past'[r] = {} /\ run'[r] = NoRun
      /\ \A q \in Runs \ {r} : past'[q] = Marked(run[q], past[q], "behind")
      /\ \A q \in Runs \ {r} : run'[q] = run[q]
      /\ run' \in [Runs -> Run]
  BY <1>1, <1>4, <1>5 DEF AfterWrite
<1>7. /\ settled' \subseteq {"secret", "conf"}
      /\ "secret" \in settled' => "stale" \notin past[r]
      /\ "conf" \in settled' => "conf" \in settled \/ past[r] \cap {"misled", "edited"} = {}
  BY <1>1 DEF Publishes, Vouches
<1>8. TypeOK'
  BY <1>1, <1>3, <1>4, <1>6, <1>7 DEF TypeOK, SecretTypeOK
<1>9. ClientHasSecret'
  BY <1>1, <1>2, <1>4 DEF ClientHasSecret
<1>10. ASSUME NEW q \in Runs
       PROVE  RunHolds(run'[q], past'[q], client', secrets', asm')
  <2>1. CASE q = r
    BY <1>6, <2>1, EndedHolds
  <2>2. CASE q # r
    <3>1. /\ run'[q] = run[q] /\ run[q] \in Run
          /\ RunHolds(run[q], past[q], client, secrets, asm)
          /\ past'[q] = Marked(run[q], past[q], "behind")
      BY <1>1, <1>6, <2>2 DEF IInv
    <3>2. RunHolds(run[q], past'[q], client, secrets, asm')
      BY <3>1, OthersBehind
    <3> QED
      BY <1>4, <3>1, <3>2
  <2> QED
    BY <2>1, <2>2
<1>11. PairsStayWhole'
  BY <1>1, <1>2, <1>3, <1>4 DEF PairsStayWhole
<1>12. CleanRunPublishes'
  BY <1>2, <1>3, <1>4, <1>7 DEF CleanRunPublishes
<1>13. CleanRunConfigures'
  BY <1>2, <1>4, <1>7 DEF IInv, CleanRunConfigures
<1> QED
  BY <1>8, <1>9, <1>10, <1>11, <1>12, <1>13 DEF IInv

(* put_asm keeps the invariant.                                            *)
LEMMA PutAsmKeeps ==
  ASSUME IInv, NEW r \in Runs, PutValue(r) \/ CreateSecret(r)
  PROVE  IInv'
<1>1. run[r].at \in Writing
  BY DEF PutValue, CreateSecret, Writing
<1>2. CASE Publishes(r)
  BY <1>1, <1>2, RunPublishes
<1>3. CASE NotPublished(r)
  BY <1>3, RunDies DEF NotPublished
<1> QED
  BY <1>2, <1>3 DEF PutValue, CreateSecret

(* Starting a run keeps the invariant.                                     *)
LEMMA StartKeeps ==
  ASSUME IInv, NEW r \in Runs, Start(r)
  PROVE  IInv'
<1>1. NewRun \in Run /\ NewRun.at = "getClient"
  BY DEF NewRun, NoRun, Run, Steps
<1>2. /\ Becomes(r, NewRun) /\ keys' \in Nat
      /\ UNCHANGED <<secretVars, client, secrets, keys, past, settled>>
  BY Facts DEF Start
<1>3. RunHolds(NewRun, past[r], client', secrets', asm)
  BY <1>1 DEF RunHolds, CarriesReal, CarriesFresh, HasConfigured, PastClient, Writing
<1> QED
  BY <1>1, <1>2, <1>3, MarksTyped, SameClient, RunMoves

(* So does an administrator's rotation: who has read the secret is marked. *)
LEMMA AdminRotatesKeeps ==
  ASSUME IInv, AdminRotates
  PROVE  IInv'
<1>1. /\ TypeOK /\ ClientHasSecret /\ PairsStayWhole
      /\ client \in Client /\ client.up /\ secrets \in Nat
      /\ run \in [Runs -> Run] /\ past \in [Runs -> SUBSET Marks]
      /\ settled' = settled \ {"secret"} /\ past' = AfterReplace
      /\ client' = [client EXCEPT !.secret = secrets + 1] /\ secrets' = secrets + 1
      /\ UNCHANGED <<asm, k8s, app, keys, run>>
  BY DEF IInv, TypeOK, AdminRotates, secretVars
<1>2. /\ client' \in Client /\ client'.up /\ client'.secret = secrets + 1
      /\ client'.conf = client.conf /\ client'.mapper = client.mapper
  BY <1>1, SecretTyped
<1>3. past' \in [Runs -> SUBSET Marks]
  BY <1>1 DEF AfterReplace, Marked, Marks
<1>4. TypeOK' /\ ClientHasSecret' /\ Replacing(client, client')
  BY <1>1, <1>2, <1>3 DEF TypeOK, SecretTypeOK, ClientHasSecret, Replacing
<1>5. ASSUME NEW q \in Runs
      PROVE  RunHolds(run'[q], past'[q], client', secrets', asm')
  <2>1. /\ run'[q] = run[q] /\ run[q] \in Run
        /\ RunHolds(run[q], past[q], client, secrets, asm)
        /\ past'[q] = Marked(run[q], past[q], "stale")
    BY <1>1 DEF IInv, AfterReplace
  <2>2. secrets' \in Nat /\ secrets <= secrets'
    BY <1>1
  <2> QED
    BY <1>1, <1>2, <1>4, <2>1, <2>2, OthersReplaced
<1>6. PairsStayWhole'
  BY <1>1, OidcAssumption DEF PairsStayWhole, TypeOK, SecretTypeOK, Payload
<1>7. CleanRunPublishes' /\ CleanRunConfigures'
  BY <1>1, <1>2 DEF IInv, CleanRunPublishes, CleanRunConfigures
<1> QED
  BY <1>4, <1>5, <1>6, <1>7 DEF IInv

(* And an edit: who has configured the client is marked.                   *)
LEMMA AdminEditsKeeps ==
  ASSUME IInv, AdminEdits
  PROVE  IInv'
<1>1. /\ TypeOK /\ ClientHasSecret /\ PairsStayWhole
      /\ client \in Client /\ client.up /\ secrets \in Nat
      /\ run \in [Runs -> Run] /\ past \in [Runs -> SUBSET Marks]
      /\ settled' = settled \ {"conf"} /\ past' = AfterEdit
      /\ UNCHANGED <<asm, k8s, app, keys, secrets, run>>
  BY DEF IInv, TypeOK, AdminEdits, secretVars
<1>2. client' \in Client /\ client'.up /\ client'.secret = client.secret
  <2>1. CASE client' = [client EXCEPT !.conf = FALSE]
    BY <1>1, <2>1, ConfTyped
  <2>2. CASE client' = [client EXCEPT !.mapper = "stale"]
    BY <1>1, <2>2, MapperTyped
  <2> QED
    BY <2>1, <2>2 DEF AdminEdits
<1>3. past' \in [Runs -> SUBSET Marks]
  BY <1>1 DEF AfterEdit, Marked, Marks
<1>4. TypeOK' /\ ClientHasSecret'
  BY <1>1, <1>2, <1>3 DEF TypeOK, SecretTypeOK, ClientHasSecret
<1>5. ASSUME NEW q \in Runs
      PROVE  RunHolds(run'[q], past'[q], client', secrets', asm')
  <2>1. /\ run'[q] = run[q] /\ run[q] \in Run
        /\ RunHolds(run[q], past[q], client, secrets, asm)
        /\ past'[q] = Marked(run[q], past[q], "edited")
    BY <1>1 DEF IInv, AfterEdit
  <2>2. RunHolds(run[q], past'[q], client', secrets, asm)
    BY <1>1, <1>2, <2>1, OthersEdited
  <2> QED
    BY <1>1, <2>1, <2>2
<1>6. PairsStayWhole' /\ CleanRunPublishes' /\ CleanRunConfigures'
  BY <1>1, <1>2 DEF IInv, PairsStayWhole, CleanRunPublishes, CleanRunConfigures
<1> QED
  BY <1>4, <1>5, <1>6 DEF IInv

(* ESO and a restart of the workload only copy pairs.                      *)
LEMMA CopyKeeps ==
  ASSUME IInv, SyncNext \/ RollNext
  PROVE  IInv'
<1>1. TypeOK /\ ClientHasSecret /\ PairsStayWhole
  BY DEF IInv
<1>2. /\ asm' = asm /\ k8s' \in {asm, k8s} /\ app' \in {k8s, app}
      /\ UNCHANGED <<client, secrets, keys, run, past, settled>>
  BY DEF SyncNext, RollNext, Refresh, Restart
<1>3. TypeOK' /\ ClientHasSecret'
  BY <1>1, <1>2 DEF TypeOK, SecretTypeOK, ClientHasSecret
<1>4. \A r \in Runs : RunHolds(run'[r], past'[r], client', secrets', asm')
  BY <1>2 DEF IInv
<1>5. PairsStayWhole'
  BY <1>1, <1>2 DEF PairsStayWhole
<1>6. CleanRunPublishes' /\ CleanRunConfigures'
  BY <1>2 DEF IInv, CleanRunPublishes, CleanRunConfigures
<1> QED
  BY <1>3, <1>4, <1>5, <1>6 DEF IInv

(* The invariant is inductive.                                             *)
LEMMA NextKeeps == IInv /\ [Next]_vars => IInv'
<1> SUFFICES ASSUME IInv, [Next]_vars PROVE IInv'
  OBVIOUS
<1>1. ASSUME NEW r \in Runs, Start(r) PROVE IInv'
  BY <1>1, StartKeeps
<1>2. ASSUME NEW r \in Runs, Step(r) PROVE IInv'
  BY <1>2, GetClientKeeps, PutClientKeeps, PostClientKeeps, RegetClientKeeps,
     EnsureMapperKeeps, ClientSecretKeeps, GetKeyKeeps, DescribeKeeps, PutAsmKeeps DEF Step
<1>3. ASSUME NEW r \in Runs, Crash(r) PROVE IInv'
  BY <1>3, RunDies DEF Crash, NotPublished
<1>4. CASE UNCHANGED vars
  <2>1. UNCHANGED <<asm, k8s, app, client, secrets, keys, run, past, settled>>
    BY <1>4 DEF vars
  <2>2. /\ TypeOK' /\ ClientHasSecret' /\ PairsStayWhole'
        /\ CleanRunPublishes' /\ CleanRunConfigures'
    BY <2>1 DEF IInv, TypeOK, SecretTypeOK, ClientHasSecret, PairsStayWhole,
      CleanRunPublishes, CleanRunConfigures
  <2>3. \A r \in Runs : RunHolds(run'[r], past'[r], client', secrets', asm')
    BY <2>1 DEF IInv
  <2> QED
    BY <2>2, <2>3 DEF IInv
<1> QED
  BY <1>1, <1>2, <1>3, <1>4, AdminRotatesKeeps, AdminEditsKeeps, CopyKeeps DEF Next, RunNext

(* The inductive invariant holds in every reachable state.                 *)
THEOREM Invariant == Spec => []IInv
  BY InitHolds, NextKeeps, PTL DEF Spec

(* The type invariant.                                                     *)
THEOREM OidcTypeOK == Spec => []TypeOK
<1>1. IInv => TypeOK
  BY DEF IInv
<1> QED
  BY Invariant, <1>1, PTL

(* For every set of overlapping runs and every set of refused requests:    *)
(* from the exit 0 of a run whose secret nobody replaced between its       *)
(* reading it and the exit, ASM holds the client's secret, until somebody  *)
(* replaces it.                                                            *)
THEOREM CleanRunPublishesAlways == Spec => []CleanRunPublishes
<1>1. IInv => CleanRunPublishes
  BY DEF IInv
<1> QED
  BY Invariant, <1>1, PTL

(* From the exit 0 of a run none of whose requests was refused, and whose  *)
(* client nobody edited after the run configured it, the client and its    *)
(* mapper are as desired, until somebody edits them.                       *)
THEOREM CleanRunConfiguresAlways == Spec => []CleanRunConfigures
<1>1. IInv => CleanRunConfigures
  BY DEF IInv
<1> QED
  BY Invariant, <1>1, PTL

(* ASM, the Kubernetes Secret and the workload never hold an absent value, *)
(* an error body or half a pair.                                           *)
THEOREM PairsStayWholeAlways == Spec => []PairsStayWhole
<1>1. IInv => PairsStayWhole
  BY DEF IInv
<1> QED
  BY Invariant, <1>1, PTL

-----------------------------------------------------------------------------
(* What a run writes to ASM is whole.                                      *)
LEMMA WritesWhole ==
  ASSUME IInv, NEW r \in Runs, run[r].at \in Writing, Publishes(r)
  PROVE  Delivery!Publish
<1>1. TypeOK /\ CarriesReal(run[r], client, secrets) /\ run[r] \in Run
  BY DEF IInv, TypeOK, RunHolds
<1>2. /\ run[r].got \in Nat /\ run[r].got # 0 /\ run[r].key \in Nat
      /\ HasKey => run[r].key # 0
  <2>1. run[r].got \in 1 .. secrets /\ secrets \in Nat
    BY <1>1 DEF CarriesReal, TypeOK
  <2> QED
    BY <1>1, <2>1 DEF CarriesReal, Run
<1>3. /\ asm' \in [Fields -> Nat]
      /\ asm'["secret"] = run[r].got /\ asm'["key"] = run[r].key
  BY <1>2, OidcAssumption DEF Publishes, Nothing
<1>4. \A f \in (IF HasKey THEN {"secret", "key"} ELSE {"secret"}) : asm'[f] # 0
  BY <1>2, <1>3
<1>5. Delivery!Whole(asm')
  BY <1>3, <1>4 DEF Delivery!Whole
<1> QED
  BY <1>5 DEF Delivery!Publish, Publishes

(* Every step is one of SecretPublishing's, or leaves the secret alone.    *)
LEMMA StepDelivers ==
  IInv /\ [Next]_vars
    => [Delivery!Publish \/ Delivery!Sync \/ Delivery!Load]_<<asm, k8s, app>>
<1> SUFFICES ASSUME IInv, [Next]_vars
             PROVE  \/ Delivery!Publish \/ Delivery!Sync \/ Delivery!Load
                    \/ UNCHANGED <<asm, k8s, app>>
  OBVIOUS
<1>1. ASSUME NEW r \in Runs, Start(r) \/ Crash(r)
      PROVE  UNCHANGED <<asm, k8s, app>>
  BY <1>1 DEF Start, Crash, NotPublished, secretVars
<1>2. ASSUME NEW r \in Runs, PutValue(r) \/ CreateSecret(r)
      PROVE  Delivery!Publish \/ UNCHANGED <<asm, k8s, app>>
  <2>1. run[r].at \in Writing
    BY <1>2 DEF PutValue, CreateSecret, Writing
  <2>2. Publishes(r) \/ NotPublished(r)
    BY <1>2 DEF PutValue, CreateSecret
  <2> QED
    BY <2>1, <2>2, WritesWhole DEF NotPublished, secretVars
<1>3. ASSUME NEW r \in Runs, Step(r), ~PutValue(r), ~CreateSecret(r)
      PROVE  UNCHANGED <<asm, k8s, app>>
  BY <1>3 DEF Step, GetClient, PutClient, PostClient, RegetClient, GetMapper,
    PutMapper, PostMapper, GetSecret, PostSecret, GetKey, Describe, secretVars
<1>4. CASE AdminRotates \/ AdminEdits
  BY <1>4 DEF AdminRotates, AdminEdits, secretVars
<1>5. CASE SyncNext
  BY <1>5 DEF SyncNext, Refresh, AsmExists, Nothing, Delivery!Sync, Delivery!Absent
<1>6. CASE RollNext
  BY <1>6 DEF RollNext, Restart, Nothing, Delivery!Load, Delivery!Absent
<1>7. CASE UNCHANGED vars
  BY <1>7 DEF vars
<1> QED
  BY <1>1, <1>2, <1>3, <1>4, <1>5, <1>6, <1>7 DEF Next, RunNext

(* For every set of overlapping runs, every set of refused requests and    *)
(* every administrator: ASM is written whole or not at all, the Kubernetes *)
(* Secret is only ever a copy of it, and the workload only loads the copy. *)
THEOREM PublishesWholeAlways == Spec => PublishesWhole
<1>1. Init => Delivery!Init
  BY DEF Init, SecretInit, Nothing, Delivery!Init, Delivery!Absent
<1>2. IInv /\ [Next]_vars
        => [Delivery!Publish \/ Delivery!Sync \/ Delivery!Load]_<<asm, k8s, app>>
  BY StepDelivers
<1> QED
  BY <1>1, <1>2, Invariant, PTL DEF Spec, PublishesWhole, Delivery!Spec

-----------------------------------------------------------------------------
(* No step of a run gives an existing client another secret, unless the    *)
(* run is marked; no step gives ASM another key, unless it is.             *)

(* A run's step leaves the other runs where they are.                      *)
LEMMA OthersStay ==
  ASSUME IInv, NEW r \in Runs, Step(r)
  PROVE  \A q \in Runs \ {r} : run'[q] = run[q]
<1>1. ASSUME NEW s, Becomes(r, s) PROVE \A q \in Runs \ {r} : run'[q] = run[q]
  BY <1>1 DEF Becomes, IInv, TypeOK
<1> QED
  BY <1>1 DEF Step, GetClient, PutClient, PostClient, RegetClient, GetMapper, PutMapper,
    PostMapper, GetSecret, PostSecret, GetKey, Describe, PutValue, CreateSecret,
    Publishes, NotPublished, Dies, Ended, Go, Learns

(* The steps that may replace the secret of an existing client.            *)
LEMMA WhoReplaces ==
  ASSUME IInv, [Next]_vars, client.up, client'.secret # client.secret
  PROVE  AdminRotates \/ \E r \in Runs : PutClient(r) \/ PostSecret(r)
<1>1. ASSUME NEW r \in Runs, PutMapper(r) \/ PostMapper(r)
      PROVE  client'.secret = client.secret
  BY <1>1, Facts, MapperTyped DEF PutMapper, PostMapper
<1>2. ASSUME NEW r \in Runs,
             \/ Start(r) \/ Crash(r) \/ GetClient(r) \/ PostClient(r) \/ RegetClient(r)
             \/ GetMapper(r) \/ GetSecret(r) \/ GetKey(r) \/ Describe(r)
             \/ PutValue(r) \/ CreateSecret(r)
      PROVE  client' = client
  BY <1>2 DEF Start, Crash, GetClient, PostClient, RegetClient, GetMapper, GetSecret,
    GetKey, Describe, PutValue, CreateSecret, Publishes, NotPublished
<1>3. CASE AdminEdits
  <2>1. client \in Client
    BY DEF IInv, TypeOK
  <2>2. CASE client' = [client EXCEPT !.conf = FALSE]
    BY <2>1, <2>2, ConfTyped
  <2>3. CASE client' = [client EXCEPT !.mapper = "stale"]
    BY <2>1, <2>3, MapperTyped
  <2> QED
    BY <1>3, <2>2, <2>3 DEF AdminEdits
<1>4. CASE SyncNext \/ RollNext \/ UNCHANGED vars
  BY <1>4 DEF SyncNext, RollNext, vars
<1> QED
  BY <1>1, <1>2, <1>3, <1>4 DEF Next, RunNext, Step

(* A run gives an existing client another secret, whether a new one or the *)
(* one it had, only when a request of that run was refused and taken for   *)
(* an answer, or when somebody else replaced the secret between its GET    *)
(* and its PUT: with any number of runs at once and any faults.            *)
THEOREM NeverRotatesAlways == Spec => NeverRotates
<1>1. IInv /\ [Next]_vars
        => [client.up /\ client'.secret # client.secret =>
              \A r \in Runs : run'[r] # run[r] => past[r] \cap {"misled", "stale"} # {}]_vars
  <2> SUFFICES ASSUME IInv, [Next]_vars, client.up, client'.secret # client.secret,
                      NEW q \in Runs, run'[q] # run[q]
               PROVE  past[q] \cap {"misled", "stale"} # {}
    OBVIOUS
  <2>1. CASE AdminRotates
    BY <2>1 DEF AdminRotates
  <2>2. ASSUME NEW r \in Runs, PutClient(r) PROVE past[q] \cap {"misled", "stale"} # {}
    <3>1. q = r
      BY <2>2, OthersStay DEF Step
    <3>2. client'.secret = run[r].seen \/ client' = client
      BY <2>2, Facts DEF PutClient, Client
    <3> QED
      BY <2>2, <3>1, <3>2, Facts DEF PutClient, CarriesFresh
  <2>3. ASSUME NEW r \in Runs, PostSecret(r) PROVE past[q] \cap {"misled", "stale"} # {}
    <3>1. q = r
      BY <2>3, OthersStay DEF Step
    <3> QED
      BY <2>3, <3>1, Facts DEF PostSecret, CarriesFresh
  <2> QED
    BY <2>1, <2>2, <2>3, WhoReplaces
<1> QED
  BY <1>1, Invariant, PTL DEF Spec, NeverRotates

(* Where the script keeps a key, a run replaces the key in ASM only when a *)
(* request of that run was refused and taken for an answer, or when        *)
(* another run wrote ASM since it looked for the key there.                *)
THEOREM KeyPreservedAlways ==
  ASSUME HasKey
  PROVE  Spec => KeyPreserved
<1>1. IInv /\ [Next]_vars
        => [asm["key"] # 0 /\ asm'["key"] # asm["key"] =>
              \E r \in Runs : run'[r] # run[r] /\ past[r] \cap {"misled", "behind"} # {}]_vars
  <2> SUFFICES ASSUME IInv, [Next]_vars, asm["key"] # 0, asm'["key"] # asm["key"]
               PROVE  \E r \in Runs : run'[r] # run[r] /\ past[r] \cap {"misled", "behind"} # {}
    OBVIOUS
  <2>1. ASSUME NEW r \in Runs, PutValue(r) \/ CreateSecret(r)
        PROVE  run'[r] # run[r] /\ past[r] \cap {"misled", "behind"} # {}
    <3>1. Publishes(r) /\ run[r].at \in Writing
      BY <2>1 DEF PutValue, CreateSecret, NotPublished, secretVars, Writing
    <3>2. asm'["key"] = run[r].key
      BY <3>1, OidcAssumption DEF Publishes, Nothing
    <3>3. run'[r] = NoRun /\ NoRun.at = "idle"
      BY <3>1 DEF Publishes, Ended, Becomes, IInv, TypeOK, NoRun
    <3> QED
      BY <3>1, <3>2, <3>3, Facts, HasKey DEF CarriesFresh, Writing
  <2>2. ASSUME NEW r \in Runs, Start(r) \/ Crash(r) PROVE asm' = asm
    BY <2>2 DEF Start, Crash, NotPublished, secretVars
  <2>3. ASSUME NEW r \in Runs, Step(r), ~PutValue(r), ~CreateSecret(r) PROVE asm' = asm
    BY <2>3 DEF Step, GetClient, PutClient, PostClient, RegetClient, GetMapper,
      PutMapper, PostMapper, GetSecret, PostSecret, GetKey, Describe, secretVars
  <2>4. CASE AdminRotates \/ AdminEdits \/ SyncNext \/ RollNext \/ UNCHANGED vars
    BY <2>4 DEF AdminRotates, AdminEdits, SyncNext, RollNext, Refresh, Restart,
      secretVars, vars
  <2> QED
    BY <2>1, <2>2, <2>3, <2>4 DEF Next, RunNext
<1> QED
  BY <1>1, Invariant, PTL DEF Spec, KeyPreserved
=============================================================================
