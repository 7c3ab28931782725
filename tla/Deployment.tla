----------------------------- MODULE Deployment -----------------------------
(***************************************************************************)
(* scripts/deploy-production.sh and backup-production.sh on the production *)
(* host: deployments that meet, wait for the release lock, stop between    *)
(* any two steps or in the middle of one, and are tried again; and an      *)
(* operator who rolls back by hand.  A deployment is one run of the script *)
(* and owns the name of its stage.  A release is a number: its images, its *)
(* files and its last migration go by it, and a database at release n has  *)
(* the migrations up to n.  Files are copied over those that are there, and*)
(* none is ever removed.  .env is there and in order, the source that is   *)
(* uploaded is the commit that is named, and a child process that outlives *)
(* a killed script holds the lock until it ends, as it inherits it.        *)
(***************************************************************************)
EXTENDS Naturals, FiniteSets

CONSTANTS Deployments,  \* runs of the script
          MaxRelease,   \* how many releases there are (a bound)
          Paths,        \* where files can be in a release
          FilesOf       \* the paths of each release's files

VARIABLES
    release,    \* what each deployment brings
    step,       \* what it does next
    lock,       \* who holds .release.lock
    source,     \* /opt/athlon: the release whose file is at each path
    image,      \* what athlon-api:production and athlon-web:production name
    running,    \* the image of each container
    kept,       \* the rollback tags, under the name of a deployment's stage
    schema,     \* the last migration of the database
    backups,    \* the dumps: of which schema, and whether to the end
    revision,   \* REVISION
    recorded,   \* auxiliary: the schema when REVISION was written
    rolledBack  \* auxiliary: an operator has rolled back since

deployVars == <<release, step, lock, source, image, running, kept, schema, backups,
                revision, recorded, rolledBack>>

Releases == 0..MaxRelease
Services == {"api", "web"}
NoFile == MaxRelease + 1
Untagged == MaxRelease + 1
Nobody == "nobody"

ASSUME DeploymentAssumption ==
    /\ MaxRelease \in Nat /\ Nobody \notin Deployments
    /\ FilesOf \in [Releases -> SUBSET Paths]

(* The tree after files of a release were copied over it. *)
Copied(tree, files, r) == [f \in Paths |-> IF f \in files THEN r ELSE tree[f]]

DeployInit ==
    /\ release = [d \in Deployments |-> 0] /\ step = [d \in Deployments |-> "none"]
    /\ lock = Nobody /\ source = [f \in Paths |-> IF f \in FilesOf[0] THEN 0 ELSE NoFile]
    /\ image = [s \in Services |-> 0] /\ running = image
    /\ kept = [d \in Deployments |-> [s \in Services |-> Untagged]]
    /\ schema = 0 /\ backups = {}
    /\ revision = 0 /\ recorded = 0 /\ rolledBack = FALSE

(* A step goes on to the next one, or the script stops with it (set -e, a    *)
(* kill, a lost connection) and the lock is free again.                     *)
GoesOn(d, next) == step' = [step EXCEPT ![d] = next] /\ UNCHANGED <<release, lock>>
Stops(d) == step' = [step EXCEPT ![d] = "stopped"] /\ lock' = Nobody /\ UNCHANGED release

-----------------------------------------------------------------------------
(* The stage is made and filled. *)
Stage(d) ==
    /\ step[d] = "none"
    /\ \E r \in Releases : release' = [release EXCEPT ![d] = r]
    /\ step' = [step EXCEPT ![d] = "waiting"]
    /\ UNCHANGED <<lock, source, image, running, kept, schema, backups, revision, recorded, rolledBack>>

(* Wrong: nobody waits. *)
LockFreeAlways == TRUE
LockFree == lock = Nobody

TakesLock(d) ==
    /\ step[d] = "waiting" /\ LockFree
    /\ lock' = d /\ step' = [step EXCEPT ![d] = "promote"]
    /\ UNCHANGED <<release, source, image, running, kept, schema, backups, revision, recorded, rolledBack>>

(* After ten minutes, or with the connection.                               *)
GivesUp(d) ==
    /\ step[d] = "waiting"
    /\ step' = [step EXCEPT ![d] = "stopped"]
    /\ UNCHANGED <<release, lock, source, image, running, kept, schema, backups, revision, recorded, rolledBack>>

(* rsync without --delete: what the release does not have stays.            *)
Promote(d) ==
    /\ step[d] = "promote"
    /\ \E files \in SUBSET FilesOf[release[d]] :
          /\ source' = Copied(source, files, release[d])
          /\ IF files = FilesOf[release[d]] THEN GoesOn(d, "preserve") ELSE Stops(d)
    /\ UNCHANGED <<image, running, kept, schema, backups, revision, recorded, rolledBack>>

(* Wrong: one tag per service, that the next deployment takes over.         *)
TaggedLast(d, services) ==
    kept' = [e \in Deployments |-> [s \in Services |-> IF s \in services THEN running[s] ELSE kept[e][s]]]

Tagged(d, services) ==
    kept' = [kept EXCEPT ![d] = [s \in Services |-> IF s \in services THEN running[s] ELSE kept[d][s]]]

(* What runs is tagged, the api's image first. *)
Preserve(d) ==
    /\ step[d] = "preserve"
    /\ \/ Tagged(d, Services) /\ GoesOn(d, "build")
       \/ Tagged(d, {"api"}) /\ Stops(d)
    /\ UNCHANGED <<source, image, running, schema, backups, revision, recorded, rolledBack>>

(* From the stage; a build that stops may have named one of the images.     *)
Build(d) ==
    /\ step[d] = "build"
    /\ \E built \in SUBSET Services :
          /\ image' = [s \in Services |-> IF s \in built THEN release[d] ELSE image[s]]
          /\ IF built = Services THEN GoesOn(d, "backup") ELSE Stops(d)
    /\ UNCHANGED <<source, running, kept, schema, backups, revision, recorded, rolledBack>>

(* A dump that fails is removed again; one that is killed stays, cut short. *)
BackUp(d) ==
    /\ step[d] = "backup"
    /\ \/ backups' = backups \cup {[of |-> schema, whole |-> TRUE]} /\ GoesOn(d, "migrate")
       \/ backups' = backups \cup {[of |-> schema, whole |-> FALSE]} /\ Stops(d)
    /\ UNCHANGED <<source, image, running, kept, schema, revision, recorded, rolledBack>>

(* The migrations in the production image that the database lacks, one      *)
(* after the other.                                                         *)
Migrate(d) ==
    /\ step[d] = "migrate"
    /\ \E m \in Releases :
          /\ m >= schema /\ (m > schema => m <= image["api"])
          /\ schema' = m
          /\ IF m >= image["api"] THEN GoesOn(d, "api") ELSE Stops(d)
    /\ UNCHANGED <<source, image, running, kept, backups, revision, recorded, rolledBack>>

(* A container is replaced; whether it then becomes healthy is another      *)
(* matter (Breaks).  The proxy comes last.                                  *)
Switch(d, s) ==
    /\ step[d] = s
    /\ running' = [running EXCEPT ![s] = image[s]]
    /\ GoesOn(d, IF s = "api" THEN "web" ELSE "smoke")
    /\ UNCHANGED <<source, image, kept, schema, backups, revision, recorded, rolledBack>>

Smoke(d) ==
    /\ step[d] = "smoke" /\ GoesOn(d, "record")
    /\ UNCHANGED <<source, image, running, kept, schema, backups, revision, recorded, rolledBack>>

(* The file is replaced in one step; with the script, the lock goes.        *)
Record(d) ==
    /\ step[d] = "record"
    /\ revision' = release[d] /\ recorded' = schema /\ rolledBack' = FALSE
    /\ step' = [step EXCEPT ![d] = "done"] /\ lock' = Nobody
    /\ UNCHANGED <<release, source, image, running, kept, schema, backups>>

(* Any step fails or is killed before it has done anything.                 *)
Breaks(d) ==
    /\ step[d] \notin {"none", "waiting", "stopped", "done"}
    /\ Stops(d)
    /\ UNCHANGED <<source, image, running, kept, schema, backups, revision, recorded, rolledBack>>

(* The README's rollback: under the lock, a deployment's tags become the    *)
(* production images again and the containers are replaced, unless it stops *)
(* in between.  REVISION stays.                                             *)
RollBack(d) ==
    /\ LockFree
    /\ \A s \in Services : kept[d][s] # Untagged
    /\ \/ image' = [image EXCEPT !["api"] = kept[d]["api"]] /\ UNCHANGED running
       \/ /\ image' = kept[d]
          /\ \E restarted \in {{}, {"api"}, Services} :
                running' = [s \in Services |-> IF s \in restarted THEN kept[d][s] ELSE running[s]]
    /\ rolledBack' = TRUE
    /\ UNCHANGED <<release, step, lock, source, kept, schema, backups, revision, recorded>>

DeployStep(d) ==
    \/ Stage(d) \/ TakesLock(d) \/ GivesUp(d) \/ Promote(d) \/ Preserve(d) \/ Build(d) \/ BackUp(d)
    \/ Migrate(d) \/ (\E s \in Services : Switch(d, s)) \/ Smoke(d) \/ Record(d) \/ Breaks(d)

DeployNext == \E d \in Deployments : DeployStep(d) \/ RollBack(d)

DeploySpec == DeployInit /\ [][DeployNext]_deployVars

-----------------------------------------------------------------------------
DeployTypeOK ==
    /\ release \in [Deployments -> Releases]
    /\ step \in [Deployments -> Services \cup {"none", "waiting", "promote", "preserve", "build", "backup",
                                               "migrate", "smoke", "record", "stopped", "done"}]
    /\ lock \in Deployments \cup {Nobody} /\ source \in [Paths -> Releases \cup {NoFile}]
    /\ image \in [Services -> Releases] /\ running \in [Services -> Releases]
    /\ kept \in [Deployments -> [Services -> Releases \cup {Untagged}]]
    /\ schema \in Releases /\ backups \subseteq [of : Releases, whole : BOOLEAN]
    /\ revision \in Releases /\ recorded \in Releases /\ rolledBack \in BOOLEAN

(* REVISION is written of what then runs: both containers are of that       *)
(* release, every file of it is in /opt/athlon as the release has it, and   *)
(* the database has its migrations, whatever other deployments and          *)
(* rollbacks were under way (the lock around lines 77-187).  Files that it  *)
(* does not have may be there too, of any deployment before (rsync without  *)
(* --delete): nothing is said of those.                                     *)
RevisionTrue ==
    [][\A d \in Deployments : step[d] = "record" /\ step'[d] = "done" =>
          /\ running = [s \in Services |-> revision']
          /\ \A f \in FilesOf[revision'] : source[f] = revision'
          /\ schema >= revision']_deployVars

(* However many deployments have failed since, and wherever they stopped,   *)
(* there is a way back to the release that REVISION names: each of its      *)
(* images runs or is tagged, and the database is as it was or a whole dump  *)
(* of it is there.  After a rollback REVISION names what was left.          *)
Restorable ==
    ~rolledBack =>
       /\ \A s \in Services : running[s] = revision \/ \E d \in Deployments : kept[d][s] = revision
       /\ schema = recorded \/ [of |-> recorded, whole |-> TRUE] \in backups
=============================================================================
