------------------------------ MODULE Environment ------------------------------
(***************************************************************************)
(* The configuration of a deployment (src/backend/src/config/env.ts): an   *)
(* operator edits the variables while the process is down, loadEnv checks  *)
(* them at boot, and the adapters that need them are built at their first  *)
(* use, long after. A variable is a class of values: "unset", or what the  *)
(* checks and the adapters tell apart.                                     *)
(***************************************************************************)
EXTENDS Integers

CONSTANTS
  Down,          \* no process runs
  NotScheduled,  \* the backup schedule's row does not exist yet
  MaxEdits       \* bound: edits of a variable

ASSUME EnvironmentAssumption == MaxEdits \in Nat

VARIABLES
  settings,   \* process.env of the next boot
  env,        \* what the running process loaded
  schedule,   \* timeOfDay the first boot wrote, as it is understood
  vault,      \* backups: what was asked of each, what was done
  payments,   \* where, and with what kind of key, customers were charged
  threw,      \* adapters that could not be built
  lost,       \* NODE_ENV of the processes that took their data with them
  edits

configVars == <<settings, env, schedule, vault, payments, threw, lost, edits>>

\* Every variable somebody's decision depends on, and the values it may be given.
Choices ==
  [NODE_ENV |-> {"unset", "production"},
   CORS_ORIGIN |-> {"unset", "local", "public"},
   DATABASE_URL |-> {"unset", "local", "remote"},
   JWT_SECRET |-> {"unset", "placeholder", "s1", "s2"},
   JWT_REFRESH_SECRET |-> {"unset", "placeholder", "s1", "s2"},
   USE_PGLITE_ADAPTER |-> {"unset", "true", "false", "yes"},
   AI_PROVIDER |-> {"unset", "openai"},
   OPENAI_API_KEY |-> {"unset", "key"},
   PAYMENT_PROVIDER |-> {"unset", "stripe"},
   STRIPE_SECRET_KEY |-> {"unset", "sk_test_", "sk_live_", "pk_"},
   STRIPE_WEBHOOK_SECRET |-> {"unset", "whsec_", "other"},
   BACKUP_ENCRYPTION_KEY |-> {"unset", "32 bytes", "fewer"},
   S3_BUCKET |-> {"unset", "name"},
   S3_ACCESS_KEY_ID |-> {"unset", "id"},
   S3_SECRET_ACCESS_KEY |-> {"unset", "secret"},
   BACKUP_SCHEDULE_TIME |-> {"unset", "05:00", "25:99"}]
Names == DOMAIN Choices
S3Names == {"S3_BUCKET", "S3_ACCESS_KEY_ID", "S3_SECRET_ACCESS_KEY"}
Asked == {"sealed", "copied"}

\* The deployments an operator starts from: the example file, and a sound production.
Example ==
  [[n \in Names |-> "unset"] EXCEPT
     !.JWT_SECRET = "placeholder", !.JWT_REFRESH_SECRET = "placeholder",
     !.CORS_ORIGIN = "local", !.DATABASE_URL = "local", !.USE_PGLITE_ADAPTER = "false"]
Production == [Example EXCEPT !.NODE_ENV = "production", !.CORS_ORIGIN = "public",
                 !.DATABASE_URL = "remote", !.JWT_SECRET = "s1", !.JWT_REFRESH_SECRET = "s2"]

\* Type invariant; a process runs only with a database.
ConfigTypeOK ==
  /\ \A n \in Names : settings[n] \in Choices[n]
  /\ IF env = Down THEN TRUE
     ELSE /\ env.NODE_ENV \in {"development", "production"} /\ env.DATABASE_URL # "unset"
          /\ env.USE_PGLITE_ADAPTER \in BOOLEAN
  /\ schedule \in {NotScheduled, "03:00", "05:00"}
  /\ vault \subseteq [asked : SUBSET Asked, done : SUBSET Asked]
  /\ payments \subseteq ({"development", "production"} \X {"mock", "test", "live"})
  /\ threw \subseteq {"ai", "billing", "backup"}
  /\ lost \subseteq {"development", "production"} /\ edits \in 0..MaxEdits

ConfigInit ==
  /\ settings \in {Example, Production}
  /\ env = Down /\ schedule = NotScheduled
  /\ vault = {} /\ payments = {} /\ threw = {} /\ lost = {} /\ edits = 0

-------------------------------------------------------------------------------
\* Faulty variants: a bucket is enough; the webhook's secret is not looked at.
BucketAlone(e) == e.S3_BUCKET = "unset" => \A n \in S3Names : e[n] = "unset"
SecretKeyOnly(e) ==
  e.PAYMENT_PROVIDER = "stripe" => e.STRIPE_SECRET_KEY \in {"sk_test_", "sk_live_"}

\* booleanEnvVar: "true" and "false" are parsed, anything else is refused.
Parses(s) == s \in {"unset", "true", "false"}
IsTrue(s) == s = "true"

\* What is required, or has a default, in every environment.
Loaded(s) ==
  [s EXCEPT !.NODE_ENV = IF @ = "unset" THEN "development" ELSE @,
            !.CORS_ORIGIN = IF @ = "unset" THEN "local" ELSE @,
            !.USE_PGLITE_ADAPTER = IsTrue(@)]
Present(s) ==
  /\ "unset" \notin {s.DATABASE_URL, s.JWT_SECRET, s.JWT_REFRESH_SECRET}
  /\ Parses(s.USE_PGLITE_ADAPTER)

\* The first superRefine: values no production deployment may have.
FitForProduction(e) ==
  e.NODE_ENV = "production" =>
    /\ e.CORS_ORIGIN # "local" /\ e.DATABASE_URL # "local"
    /\ "placeholder" \notin {e.JWT_SECRET, e.JWT_REFRESH_SECRET}
    /\ e.JWT_SECRET # e.JWT_REFRESH_SECRET
    /\ ~e.USE_PGLITE_ADAPTER

\* The second: a provider has its keys, and of the environment's kind; the encryption key
\* has 32 bytes; the off-site storage is configured altogether or not at all.
StripeIsWhole(e) ==
  e.PAYMENT_PROVIDER = "stripe" =>
    /\ e.STRIPE_SECRET_KEY \in {"sk_test_", "sk_live_"}
    /\ e.STRIPE_WEBHOOK_SECRET = "whsec_"
StripeIsOfThisKind(e) ==
  e.PAYMENT_PROVIDER = "stripe" =>
    e.STRIPE_SECRET_KEY # IF e.NODE_ENV = "production" THEN "sk_test_" ELSE "sk_live_"
KeyFits(e) == e.BACKUP_ENCRYPTION_KEY # "fewer"
AllOrNothing(e) ==
  (\A n \in S3Names : e[n] = "unset") \/ (\A n \in S3Names : e[n] # "unset")
Consistent(e) ==
  /\ e.AI_PROVIDER = "openai" => e.OPENAI_API_KEY # "unset"
  /\ StripeIsWhole(e) /\ StripeIsOfThisKind(e) /\ KeyFits(e) /\ AllOrNothing(e)

Valid(s) == Present(s) /\ FitForProduction(Loaded(s)) /\ Consistent(Loaded(s))

\* parseTimeOfDay: three in the morning for what is no time.
TimeOfDay(s) == IF s = "05:00" THEN "05:00" ELSE "03:00"

\* The adapters' own conditions.
AiThrows == env.AI_PROVIDER = "openai" /\ env.OPENAI_API_KEY = "unset"
BillingThrows ==
  env.PAYMENT_PROVIDER = "stripe" /\ "unset" \in {env.STRIPE_SECRET_KEY, env.STRIPE_WEBHOOK_SECRET}
BackupThrows == env.BACKUP_ENCRYPTION_KEY = "fewer"
S3Configured == \A n \in S3Names : env[n] # "unset"

KindOfCharge ==
  IF env.PAYMENT_PROVIDER # "stripe" THEN "mock"
  ELSE IF env.STRIPE_SECRET_KEY = "sk_live_" THEN "live" ELSE "test"

-------------------------------------------------------------------------------
\* An operator edits a variable for the next boot.
Edit(n) ==
  /\ env = Down /\ edits < MaxEdits
  /\ edits' = edits + 1
  /\ \E v \in Choices[n] \ {settings[n]} : settings' = [settings EXCEPT ![n] = v]
  /\ UNCHANGED <<env, schedule, vault, payments, threw, lost>>

\* loadEnv at module load; the scheduler's ensureDefaultBackupSchedule writes its row once.
BootProcess ==
  /\ env = Down /\ Valid(settings)
  /\ env' = Loaded(settings)
  /\ schedule' = IF schedule = NotScheduled THEN TimeOfDay(settings.BACKUP_SCHEDULE_TIME)
                 ELSE schedule
  /\ UNCHANGED <<settings, vault, payments, threw, lost, edits>>

\* An in-memory database goes with its process, and with it the schedule.
StopProcess ==
  /\ env # Down
  /\ env' = Down
  /\ lost' = IF env.USE_PGLITE_ADAPTER THEN lost \cup {env.NODE_ENV} ELSE lost
  /\ schedule' = IF env.USE_PGLITE_ADAPTER THEN NotScheduled ELSE schedule
  /\ UNCHANGED <<settings, vault, payments, threw, edits>>

\* The first AI action builds the adapter.
UseAi ==
  /\ env # Down
  /\ threw' = threw \cup IF AiThrows THEN {"ai"} ELSE {}
  /\ UNCHANGED <<settings, env, schedule, vault, payments, lost, edits>>

\* A customer is charged.
Charge ==
  /\ env # Down
  /\ IF BillingThrows
     THEN threw' = threw \cup {"billing"} /\ UNCHANGED payments
     ELSE payments' = payments \cup {<<env.NODE_ENV, KindOfCharge>>} /\ UNCHANGED threw
  /\ UNCHANGED <<settings, env, schedule, vault, lost, edits>>

\* A backup: encrypted under the key, copied off-site where that is configured.
MakeBackup ==
  /\ env # Down
  /\ IF BackupThrows
     THEN threw' = threw \cup {"backup"} /\ UNCHANGED vault
     ELSE /\ vault' = vault \cup
               {[asked |-> {a \in Asked :
                    \/ a = "sealed" /\ settings.BACKUP_ENCRYPTION_KEY # "unset"
                    \/ a = "copied" /\ \E n \in S3Names : settings[n] # "unset"},
                 done |-> {a \in Asked :
                    \/ a = "sealed" /\ env.BACKUP_ENCRYPTION_KEY # "unset"
                    \/ a = "copied" /\ S3Configured}]}
          /\ UNCHANGED threw
  /\ UNCHANGED <<settings, env, schedule, payments, lost, edits>>

-------------------------------------------------------------------------------
ConfigStep ==
  \/ \E n \in Names : Edit(n)
  \/ BootProcess \/ StopProcess \/ UseAi \/ Charge \/ MakeBackup

ConfigSpec == ConfigInit /\ [][ConfigStep]_configVars

-------------------------------------------------------------------------------
\* Failing at startup "beats a much deeper, less actionable failure" (lines 228-233):
\* whatever was edited between the boots, no adapter of a process that came up finds its
\* configuration wanting; a backup is as encrypted and as far away as the variables that
\* were set ask for; nobody pays for a development or gets away with test money in
\* production, and no production data lived in memory.
SettingsHold ==
  /\ threw = {}
  /\ \A b \in vault : b.asked = b.done
  /\ <<"development", "live">> \notin payments /\ <<"production", "test">> \notin payments
  /\ "production" \notin lost

\* Not so: a schedule written by the first boot is never brought up to date.
ScheduleFollowsSettings ==
  env # Down => schedule = TimeOfDay(env.BACKUP_SCHEDULE_TIME)
===============================================================================
