-------------------------------- MODULE ApiAuth --------------------------------
(***************************************************************************)
(* The read API's clients: the row of one client and its secrets in the    *)
(* database (api/storage/clients.py), the commands of `yfin api client`    *)
(* that change them (cli/api.py), the keys in Redis that make a change     *)
(* effective before the tokens expire (api/ratelimit/revocation.py), the   *)
(* token endpoint with its limiter (api/routers/oauth.py,                  *)
(* api/ratelimit/token_endpoint.py) and the check of a bearer token        *)
(* (api/auth/dependencies.py).                                             *)
(*                                                                         *)
(* A command is three steps that other commands may interleave with: it    *)
(* reads the rows, commits, and publishes.  An attempt at the endpoint is  *)
(* two: it passes the limiter and loads the record, then, its hashing      *)
(* done, it is refused or mints a token.  Secrets are numbered by age and  *)
(* grants (scopes, plan) are reduced to the commit that set them.  The     *)
(* window of the caller's address, which counts beside the failures of the *)
(* client, is left out.                                                    *)
(***************************************************************************)
EXTENDS Integers, Sequences, FiniteSets

CONSTANTS Operators,      \* the shells commands are run from
          Attempts,       \* requests the token endpoint may serve at once
          TokenTtl,       \* token_ttl_seconds, in ticks
          Leeway,         \* LEEWAY_SECONDS
          Grace,          \* DEFAULT_ROTATION_GRACE
          MaxLive,        \* MAX_LIVE_SECRETS = VERIFICATIONS_PER_ATTEMPT
          FailureLimit,   \* FAILURE_LIMIT
          FailureBlock,   \* FAILURE_BLOCK_SECONDS
          FallbackLimit,  \* FALLBACK_IP_LIMIT
          MaxSecrets,     \* bound: the secrets ever made, the rotations and the first
          MaxNow          \* bound: the last tick

VARIABLES now,       \* the clock
          left,      \* bounds: how many more of each kind of event may begin
          client,    \* the row: is_active, auth_epoch
          secrets,   \* its secrets, oldest first: revoked, expires_at (0: none)
          keys,      \* Redis: client_epoch, client_disabled, revoked_secret, tok:fail
          fallback,  \* the FixedWindow of the process: window, hits
          cmd,       \* per operator, the command being run
          try,       \* per attempt, where it is
          tokens,    \* the tokens handed out
          log,       \* history: the commits, in order
          tries      \* history: when a wrong or dead secret was verified

Never == -1
Kinds == {"rotate", "revoke", "grant", "disable", "enable"}
Idle == [pc |-> "idle"]

(* Bounds are counted down in `left`, whose other fields belong to the module *)
(* this one is composed with.                                                 *)
Spend(what) == left[what] > 0 /\ left' = [left EXCEPT ![what] = @ - 1]

--------------------------------------------------------------------------------
(* The rows. *)

Secret == [revoked |-> FALSE, expires |-> 0]

\* live_secrets
Live == {i \in DOMAIN secrets : ~secrets[i].revoked /\ (secrets[i].expires = 0 \/ secrets[i].expires > now)}

\* candidates_for: the newest few, usable or not.
Candidates == {i \in DOMAIN secrets : i > Len(secrets) - MaxLive}

\* verify_against: usability is applied to the result of the comparison.
Matches(i) == i \in Candidates /\ i \in Live

\* Mutant: new scopes and a new plan leave the epoch alone.
EpochUngranted(c) == IF c.kind \in {"grant", "revoke"} THEN c.epoch ELSE c.epoch + 1
\* `client.auth_epoch += 1`, in Python, from the row the command read; revoking
\* what is revoked already changes nothing.
NewEpoch(c) == IF c.kind = "revoke" /\ c.done THEN c.epoch ELSE c.epoch + 1

--------------------------------------------------------------------------------
(* Commands. *)

\* Two live secrets are an unfinished rotation: a third is refused.
MayRotate == Cardinality(Live) < MaxLive

Quiet == \A x \in Operators : cmd[x] = Idle

\* The reads of a command's transaction: the client, its live secrets, the secret
\* to revoke.
Begin(o, k, i) ==
    /\ cmd[o] = Idle
    /\ k = "rotate" => MayRotate
    /\ Spend("changes")
    /\ cmd' = [x \in Operators |->
         IF x = o
         THEN [pc |-> "read", kind |-> k, sid |-> i, epoch |-> client.epoch, active |-> client.active,
               live |-> Live, expires |-> [j \in Live |-> secrets[j].expires],
               done |-> secrets[i].revoked, after |-> Len(log), alone |-> Quiet]
         ELSE IF cmd[x] = Idle THEN Idle ELSE [cmd[x] EXCEPT !.alone = FALSE]]
    /\ UNCHANGED <<now, client, secrets, keys, fallback, try, tokens, log, tries>>

\* rotate_secret: the live ones it read get a deadline, a new one is added.
Rotated(c) ==
    LET due == now + Grace
    IN  Append([j \in DOMAIN secrets |->
                  IF j \in c.live /\ (c.expires[j] = 0 \/ c.expires[j] > due)
                  THEN [secrets[j] EXCEPT !.expires = due] ELSE secrets[j]],
               Secret)

\* The flush writes the columns that changed from what was read.
Commit(o) ==
    LET c == cmd[o]
        wanted == CASE c.kind = "disable" -> FALSE [] c.kind = "enable" -> TRUE [] OTHER -> c.active
        e == NewEpoch(c)
    IN  /\ cmd[o].pc = "read"
        /\ client' = [active |-> IF wanted # c.active THEN wanted ELSE client.active,
                      epoch |-> IF e # c.epoch THEN e ELSE client.epoch]
        /\ secrets' = CASE c.kind = "rotate" -> Rotated(c)
                        [] c.kind = "revoke" -> [secrets EXCEPT ![c.sid].revoked = TRUE]
                        [] OTHER -> secrets
        /\ log' = Append(log, [kind |-> c.kind, sid |-> c.sid, epoch |-> e, pub |-> Never, alone |-> FALSE,
                               serial |-> c.after = Len(log)])
        /\ cmd' = [cmd EXCEPT ![o].pc = "committed", ![o].after = Len(log) + 1]
        /\ UNCHANGED <<now, left, keys, fallback, try, tokens, tries>>

\* publish_revocation, one pipeline: the epoch always, the flag of a disabled
\* client set or deleted, the secret that was revoked.
Published(k, c) ==
    [k EXCEPT !.epoch = [value |-> NewEpoch(c), until |-> now + TokenTtl],
              !.disabled = CASE c.kind = "disable" -> now + TokenTtl
                             [] c.kind = "enable" -> 0
                             [] OTHER -> @,
              !.revoked = IF c.kind = "revoke" THEN [@ EXCEPT ![c.sid] = now + TokenTtl] ELSE @]

Publish(o) ==
    LET c == cmd[o] IN
        /\ c.pc = "committed"
        /\ keys' = Published(keys, c)
        /\ log' = [log EXCEPT ![c.after].pub = now, ![c.after].alone = c.alone]
        /\ cmd' = [cmd EXCEPT ![o] = Idle]
        /\ UNCHANGED <<now, left, client, secrets, fallback, try, tokens, tries>>

\* Redis cannot be reached, or has never been the API's: the command says so and
\* ends; nothing publishes its change later.
PublishFails(o) ==
    /\ cmd[o].pc = "committed"
    /\ Spend("faults")
    /\ cmd' = [cmd EXCEPT ![o] = Idle]
    /\ UNCHANGED <<now, client, secrets, keys, fallback, try, tokens, log, tries>>

--------------------------------------------------------------------------------
(* The token endpoint. *)

\* The counter of failed verifications of the client id, 0 once it has expired.
Failures == IF keys.fail.until > now THEN keys.fail.n ELSE 0

Load(a, i, degraded) ==
    try' = [try EXCEPT ![a] = [pc |-> "loaded", degraded |-> degraded, sid |-> i, ok |-> client.active /\ Matches(i),
                               epoch |-> client.epoch, seen |-> Len(log)]]

\* check, then load_for_auth: what the attempt will answer with is read here.
Ask(a, i) ==
    /\ try[a] = Idle
    /\ Spend("attempts")
    /\ IF Failures >= FailureLimit THEN UNCHANGED try ELSE Load(a, i, FALSE)
    /\ UNCHANGED <<now, client, secrets, keys, fallback, cmd, tokens, log, tries>>

\* FixedWindow.allow, one window a tick.
Hits(w) == IF fallback.window = w THEN fallback.hits + 1 ELSE 1

\* Redis does not answer: the window of this process decides.
AskDegraded(a, i) ==
    /\ try[a] = Idle
    /\ left["attempts"] > 0 /\ left["faults"] > 0
    /\ left' = [left EXCEPT !["attempts"] = @ - 1, !["faults"] = @ - 1]
    /\ fallback' = [window |-> now, hits |-> Hits(now)]
    /\ IF Hits(now) <= FallbackLimit THEN Load(a, i, TRUE) ELSE UNCHANGED try
    /\ UNCHANGED <<now, client, secrets, keys, cmd, tokens, log, tries>>

\* record_failure: the count, and its life, grow with each.
CountFailure == [n |-> Failures + 1, until |-> now + FailureBlock]

Deny(a) ==
    /\ try[a].pc = "loaded" /\ ~try[a].ok
    /\ keys' = [keys EXCEPT !.fail = CountFailure]
    /\ tries' = IF try[a].degraded THEN tries ELSE Append(tries, now)
    /\ try' = [try EXCEPT ![a] = Idle]
    /\ UNCHANGED <<now, left, client, secrets, fallback, cmd, tokens, log>>

\* mint, then record_success.
Mint(a) ==
    LET t == try[a] IN
        /\ t.pc = "loaded" /\ t.ok
        /\ tokens' = tokens \cup {[sid |-> t.sid, epoch |-> t.epoch, seen |-> t.seen, exp |-> now + TokenTtl]}
        /\ keys' = [keys EXCEPT !.fail = [n |-> 0, until |-> 0]]
        /\ tries' = <<>>
        /\ try' = [try EXCEPT ![a] = Idle]
        /\ UNCHANGED <<now, left, client, secrets, fallback, cmd, log>>

--------------------------------------------------------------------------------
(* The bearer dependency. *)

\* _revocation_state and current_principal: the flag, the secret, the epoch.
Revoked(t) ==
    \/ keys.disabled > now
    \/ keys.revoked[t.sid] > now
    \/ keys.epoch.until > now /\ t.epoch < keys.epoch.value

\* verify: a token lives Leeway longer than it says.
Unexpired(t) == now < t.exp + Leeway

\* While Redis answers; when it does not, the check fails open.
Accepted(t) == Unexpired(t) /\ ~Revoked(t)

--------------------------------------------------------------------------------
\* An attempt is answered in the tick it was loaded in; commands take their time.
AuthTick ==
    /\ now < MaxNow
    /\ \A a \in Attempts : try[a] = Idle
    /\ now' = now + 1
    /\ UNCHANGED <<left, client, secrets, keys, fallback, cmd, try, tokens, log, tries>>

AuthInit ==
    /\ client = [active |-> TRUE, epoch |-> 1]
    /\ secrets = <<Secret>>
    /\ keys = [epoch |-> [value |-> 0, until |-> 0], disabled |-> 0,
               revoked |-> [i \in 1..MaxSecrets |-> 0], fail |-> [n |-> 0, until |-> 0]]
    /\ fallback = [window |-> Never, hits |-> 0]
    /\ cmd = [o \in Operators |-> Idle]
    /\ try = [a \in Attempts |-> Idle]
    /\ tokens = {[sid |-> 1, epoch |-> 1, seen |-> 0, exp |-> now + TokenTtl]}
    /\ log = <<>>
    /\ tries = <<>>

AuthStep ==
    \/ \E o \in Operators :
          \/ \E k \in Kinds \ {"revoke"} : Begin(o, k, 1)
          \/ \E i \in DOMAIN secrets : Begin(o, "revoke", i)
          \/ Commit(o) \/ Publish(o) \/ PublishFails(o)
    \/ \E a \in Attempts :
          \/ \E i \in {0} \cup DOMAIN secrets : Ask(a, i) \/ AskDegraded(a, i)
          \/ Deny(a) \/ Mint(a)

--------------------------------------------------------------------------------
AuthTypeOK ==
    /\ now \in 0..MaxNow
    /\ client \in [active : BOOLEAN, epoch : Nat]
    /\ Len(secrets) \in 1..MaxSecrets
    /\ \A i \in DOMAIN secrets : secrets[i] \in [revoked : BOOLEAN, expires : Nat]
    /\ keys.epoch \in [value : Nat, until : Nat]
    /\ keys.disabled \in Nat /\ keys.fail \in [n : Nat, until : Nat]
    /\ \A o \in Operators : cmd[o] = Idle \/ cmd[o].pc \in {"read", "committed"}
    /\ \A j \in DOMAIN log : log[j].pub \in {Never} \cup 0..now
    /\ \A t \in tokens : t.epoch \in 1..(Len(log) + 1) /\ t.exp <= now + TokenTtl

\* No command committed between another's read and its commit, up to the j-th commit:
\* each epoch is then above those before it.
SerialTo(j) == \A i \in 1..j : log[i].serial
Serial == SerialTo(Len(log))
\* No command ran at the same time as another, and each was published.
Orderly == \A j \in DOMAIN log : log[j].pub # Never /\ log[j].alone

\* What is left, once the key of a publication has expired, of a token minted from
\* the rows as they were before it: the leeway of the check.
OnlyLeeway(j) == now >= log[j].pub + TokenTtl /\ now < log[j].pub + TokenTtl + Leeway

\* A token minted from the scopes, the plan or the state a client had before a change
\* is refused from the moment the change is published until the key that says so
\* expires, whatever was minted between the commit and the publication.  Two ways of
\* running commands at once undo it, and nothing else does: two that read the same
\* epoch commit the same sum, so that tokens of the first carry the epoch of the
\* second; and the older of two commits, published last, puts its epoch over the
\* newer one.  (A revoked secret has its own property: of the client's other tokens,
\* which its epoch refuses too, nothing is asked.)
StaleRefused ==
    \A t \in tokens, j \in DOMAIN log :
        (log[j].kind # "revoke" /\ log[j].pub # Never /\ j > t.seen /\ Accepted(t))
        => OnlyLeeway(j) \/ ~SerialTo(j) \/ keys.epoch.value < log[j].epoch

\* No token of a client that was switched off is accepted while the flag lives, until
\* the client is switched on again, and in whatever order any commands read, commit
\* and publish: the flag does not depend on the epochs.
DisabledRefused ==
    \A t \in tokens, j \in DOMAIN log :
        (/\ log[j].kind = "disable" /\ log[j].pub # Never
         /\ \A i \in DOMAIN log : log[i].kind = "enable" => log[i].pub < log[j].pub
         /\ Accepted(t))
        => now >= log[j].pub + TokenTtl /\ (j > t.seen => OnlyLeeway(j))

\* The tokens of a revoked secret are refused for as long, even when two commands
\* read the same epoch and wrote the same sum.
SecretRefused ==
    \A t \in tokens, j \in DOMAIN log :
        (log[j].kind = "revoke" /\ log[j].pub # Never /\ t.sid = log[j].sid /\ Accepted(t))
        => OnlyLeeway(j)

\* When commands were run one after the other and reached Redis, a client that is
\* active is served with a token minted now: no key of an earlier state is left.
FreshAccepted ==
    (Orderly /\ Quiet /\ client.active)
    => \A i \in Live : ~Revoked([sid |-> i, epoch |-> client.epoch])

\* A client has at most as many live secrets as an attempt compares, unless two
\* rotations read the same ones.
LiveBounded == Serial => Cardinality(Live) <= MaxLive

\* Within one block no more wrong secrets are verified than the limit and the
\* attempts that had passed the check before it was reached.
VerificationsBounded ==
    \A i, j \in DOMAIN tries :
        (i <= j /\ tries[j] < tries[i] + FailureBlock) => j - i + 1 <= FailureLimit + Cardinality(Attempts) - 1
================================================================================
