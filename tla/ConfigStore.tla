------------------------------- MODULE ConfigStore -------------------------------
(***************************************************************************)
(* Where the operator's documents are kept and how they come into force:   *)
(* three files, replaced one after the other, or one SQLite registry,      *)
(* replaced in a transaction.  The admin console of the running process    *)
(* writes them, config-storage.mjs, a process of its own, copies one store *)
(* over the other, and the runtime's watcher loads what has changed.       *)
(*                                                                         *)
(* Within the gateway's process an operation runs without an await; the    *)
(* tool, and a crash, come between any two of its accesses.  The idle wait *)
(* before a loaded configuration is swapped in is RuntimeGeneration's.     *)
(***************************************************************************)
EXTENDS OperatorConfig

CONSTANTS
    Changes(_),    \* the operations offered on documents
    NoStore, Idle,
    MaxOps,        \* bound of the operations begun
    MaxCli,        \* bound of the runs of config-storage.mjs
    MaxCrashes     \* bound of the crashes

Parts == {"relays", "models", "env"}

Registries == [relays : Relays, models : ModelDocs, env : SUBSET EnvNames, revision : Nat]
Operations == [change : Asked \cup Documents, merged : BOOLEAN, left : SUBSET Parts]
Copies     == [kind : {"import", "export"}, docs : Documents,
               left : SUBSET (Parts \cup {"registry"})]

ASSUME StoreAssumption ==
    /\ \A d \in Documents : \A change \in Changes(d) : Targeted(d, change)
    /\ NoStore \notin Registries \cup Documents
    /\ Idle \notin Operations \cup Copies

VARIABLES
    files,     \* [relays, models, env, backend]: two JSON files and the env file
    db,        \* NoStore, or the active registry [relays, models, env, revision]
    mode,      \* repository the console was given at boot
    opened,    \* whether the registry was opened at boot
    up,
    admin,     \* Idle, or the operation under way
    cli,       \* Idle, or the run of config-storage.mjs under way
    inForce,   \* [relays, models, env] in force
    known,     \* digest the watcher handled last
    bound,     \* [ops, cli, crashes] so far
    observed   \* observer: [orphans, want, raced]

storeVars == <<files, db, mode, opened, up, admin, cli, inForce, known, bound, observed>>

Docs(s) == [relays |-> s.relays, models |-> s.models, env |-> s.env]

\* readRelays, readModels, readEnv of the console's repository.
Stored == IF mode = "files" THEN Docs(files) ELSE Docs(db)

-----------------------------------------------------------------------------

(* Loading. *)

\* selectConfigBackend: the env file says which store the runtime reads; the
\* registry is read only when it was opened at boot.
Reads == IF files.backend = "files" THEN "files"
         ELSE IF opened /\ db # NoStore THEN "sqlite" ELSE "none"

Effective == IF Reads = "sqlite" THEN Docs(db) ELSE Docs(files)
CanLoad == Reads # "none" /\ Loads(Effective)

\* Mutant of Digest: the revision of the registry is not part of it.
DigestOfDocuments == IF Reads = "sqlite"
                     THEN <<files.env, "sqlite", db.relays, db.models, 0>>
                     ELSE <<files.env, "files", files.relays, files.models, 0>>

\* The digest of the runtime loader: the documents it read and, of the registry,
\* the revision, as its env document is not among them.
Digest == IF Reads = "sqlite"
          THEN <<files.env, "sqlite", db.relays, db.models, db.revision>>
          ELSE <<files.env, "files", files.relays, files.models, 0>>

\* The boot: the mode "sqlite" fills a registry that is not active from the files.
Boot(f, d) ==
    LET registry == IF f.backend = "sqlite" /\ d = NoStore
                    THEN [relays |-> f.relays, models |-> f.models, env |-> f.env,
                          revision |-> 1]
                    ELSE d
    IN /\ db' = registry
       /\ opened' = (f.backend = "sqlite")
       /\ mode' = f.backend

StoreInit ==
    /\ files \in {[relays |-> Starter.relays, models |-> Starter.models, env |-> {},
                   backend |-> b] : b \in {"files", "sqlite"}}
    /\ db = IF files.backend = "files" THEN NoStore
            ELSE [relays |-> Starter.relays, models |-> Starter.models, env |-> {},
                  revision |-> 1]
    /\ mode = files.backend /\ opened = (files.backend = "sqlite") /\ up = TRUE
    /\ admin = Idle /\ cli = Idle
    /\ inForce = Starter
    /\ known = Digest
    /\ bound = [ops |-> 0, cli |-> 0, crashes |-> 0]
    /\ observed = [orphans |-> {}, want |-> Starter, raced |-> FALSE]

-----------------------------------------------------------------------------

(* The console. *)

Result(change) == [relays |-> change.relays, models |-> change.models,
                   env |-> (Stored.env \cup change.set) \ change.clear]

\* An operation reads the documents, makes its change and validates it; an
\* invalid one is refused and nothing is written.
AdminBegin ==
    /\ up /\ admin = Idle /\ bound.ops < MaxOps
    /\ \E change \in Changes(Stored) :
          /\ ValidDocuments(change.relays, change.models)
          /\ admin' = [change |-> change, merged |-> FALSE,
                       left |-> change.parts \cup (IF change.set \cup change.clear = {}
                                                   THEN {} ELSE {"env"})]
          /\ observed' = [observed EXCEPT
                         !.want = IF cli = Idle THEN Result(change) ELSE NoStore,
                         !.raced = @ \/ cli # Idle,
                         \* a removal leaves the credential, or is about to clear it
                         !.orphans = @ \cup ((Stored.env \cap Providers) \ Configured(change.relays))]
    /\ bound' = [bound EXCEPT !.ops = @ + 1]
    /\ UNCHANGED <<files, db, mode, opened, up, cli, inForce, known>>

\* Mutant of NextPart: the credentials are written before the providers.
NextPartEnvFirst(left) == IF "env" \in left THEN "env"
                          ELSE IF "relays" \in left THEN "relays" ELSE "models"

\* The parts of a commit to the files, in their order.
NextPart(left) == IF "relays" \in left THEN "relays"
                  ELSE IF "models" \in left THEN "models" ELSE "env"

\* One file is replaced by a rename, the env file last.
WriteFile ==
    /\ up /\ admin # Idle /\ mode = "files"
    /\ LET part == NextPart(admin.left)
           c    == admin.change
       IN /\ files' = CASE part = "relays" -> [files EXCEPT !.relays = c.relays]
                        [] part = "models" -> [files EXCEPT !.models = c.models]
                        [] part = "env"    -> [files EXCEPT !.env = (@ \cup c.set) \ c.clear]
          /\ admin' = IF admin.left = {part} THEN Idle ELSE [admin EXCEPT !.left = @ \ {part}]
    /\ UNCHANGED <<db, mode, opened, up, cli, inForce, known, bound, observed>>

\* Mutant of Merged: the registry keeps its credentials.
MergedDocuments(change) ==
    [relays |-> IF "relays" \in change.parts THEN change.relays ELSE db.relays,
     models |-> IF "models" \in change.parts THEN change.models ELSE db.models,
     env    |-> db.env]

\* commit of the SQLite repository: the documents the change leaves alone, and
\* the credentials, are those of the registry as it is read now.
Merged(change) ==
    [relays |-> IF "relays" \in change.parts THEN change.relays ELSE db.relays,
     models |-> IF "models" \in change.parts THEN change.models ELSE db.models,
     env    |-> (db.env \cup change.set) \ change.clear]

ReadRegistry ==
    /\ up /\ admin # Idle /\ mode = "sqlite" /\ ~admin.merged
    /\ admin' = [admin EXCEPT !.merged = TRUE, !.change = Merged(@)]
    /\ UNCHANGED <<files, db, mode, opened, up, cli, inForce, known, bound, observed>>

\* replaceAll: one transaction.
ReplaceAll ==
    /\ up /\ admin # Idle /\ mode = "sqlite" /\ admin.merged
    /\ db' = [relays |-> admin.change.relays, models |-> admin.change.models,
              env |-> admin.change.env, revision |-> db.revision + 1]
    /\ admin' = Idle
    /\ UNCHANGED <<files, mode, opened, up, cli, inForce, known, bound, observed>>

-----------------------------------------------------------------------------

(* config-storage.mjs. *)

\* The other process may read or write under an operation of the console.
Raced == [observed EXCEPT !.want = NoStore, !.raced = @ \/ admin # Idle]

\* import-files --apply --force: the files are validated, the registry replaced,
\* then the env file says that the registry is the store.
ImportBegin ==
    /\ cli = Idle /\ bound.cli < MaxCli
    /\ ValidDocuments(files.relays, files.models)
    /\ cli' = [kind |-> "import", docs |-> Docs(files), left |-> {"registry", "env"}]
    /\ bound' = [bound EXCEPT !.cli = @ + 1]
    /\ observed' = Raced
    /\ UNCHANGED <<files, db, mode, opened, up, admin, inForce, known>>

\* export-files --apply
ExportBegin ==
    /\ cli = Idle /\ bound.cli < MaxCli /\ db # NoStore
    /\ ValidDocuments(db.relays, db.models)
    /\ cli' = [kind |-> "export", docs |-> Docs(db), left |-> {"relays", "models", "env"}]
    /\ bound' = [bound EXCEPT !.cli = @ + 1]
    /\ observed' = Raced
    /\ UNCHANGED <<files, db, mode, opened, up, admin, inForce, known>>

CliStep(left) == cli' = IF left = {} THEN Idle ELSE [cli EXCEPT !.left = left]

ImportStep ==
    /\ cli # Idle /\ cli.kind = "import"
    /\ IF "registry" \in cli.left
       THEN /\ db' = [relays |-> cli.docs.relays, models |-> cli.docs.models,
                      env |-> cli.docs.env,
                      revision |-> IF db = NoStore THEN 1 ELSE db.revision + 1]
            /\ UNCHANGED files
            /\ CliStep({"env"})
       ELSE /\ files' = [files EXCEPT !.backend = "sqlite"]
            /\ UNCHANGED db
            /\ CliStep({})
    /\ UNCHANGED <<mode, opened, up, admin, inForce, known, bound, observed>>

ExportStep ==
    /\ cli # Idle /\ cli.kind = "export"
    /\ LET part == NextPart(cli.left)
       IN /\ files' = CASE part = "relays" -> [files EXCEPT !.relays = cli.docs.relays]
                        [] part = "models" -> [files EXCEPT !.models = cli.docs.models]
                        [] part = "env"    -> [files EXCEPT !.env = cli.docs.env,
                                                            !.backend = "files"]
          /\ CliStep(cli.left \ {part})
    /\ UNCHANGED <<db, mode, opened, up, admin, inForce, known, bound, observed>>

-----------------------------------------------------------------------------

(* The runtime. *)

\* The check of the watcher, on its interval and after each operation of the
\* console: what cannot be loaded changes nothing.
WatcherCheck ==
    /\ up /\ admin = Idle
    /\ CanLoad /\ Digest # known
    /\ inForce' = Effective
    /\ known' = Digest
    /\ UNCHANGED <<files, db, mode, opened, up, admin, cli, bound, observed>>

\* The process ends between two accesses; an operation under way is lost.
Crash ==
    /\ up /\ bound.crashes < MaxCrashes
    /\ up' = FALSE /\ admin' = Idle
    /\ bound' = [bound EXCEPT !.crashes = @ + 1]
    /\ observed' = IF admin = Idle THEN observed ELSE [observed EXCEPT !.want = NoStore]
    /\ UNCHANGED <<files, db, mode, opened, cli, inForce, known>>

\* A boot that cannot load ends at once.
Start ==
    /\ ~up
    /\ Boot(files, db)
    /\ LET d == IF files.backend = "files" THEN Docs(files) ELSE Docs(db')
       IN Loads(d) /\ inForce' = d
    /\ up' = TRUE
    /\ known' = IF files.backend = "sqlite"
                THEN <<files.env, "sqlite", db'.relays, db'.models, db'.revision>>
                ELSE <<files.env, "files", files.relays, files.models, 0>>
    /\ observed' = IF mode' = mode THEN observed ELSE [observed EXCEPT !.want = NoStore]
    /\ UNCHANGED <<files, admin, cli, bound>>

StoreNext ==
    \/ AdminBegin \/ WriteFile \/ ReadRegistry \/ ReplaceAll
    \/ ImportBegin \/ ExportBegin \/ ImportStep \/ ExportStep
    \/ WatcherCheck \/ Crash \/ Start

\* The interval of the watcher, and operations that run to their end.
StoreSpec == StoreInit /\ [][StoreNext]_storeVars
             /\ WF_storeVars(WatcherCheck) /\ WF_storeVars(WriteFile \/ ReadRegistry \/ ReplaceAll)

-----------------------------------------------------------------------------

\* Whatever the console stores can be loaded again, at the next check and after
\* a crash between any two writes, but for the credential of a provider that was
\* removed: validation does not look at it, it is cleared last, or kept.
\* (A race with config-storage.mjs may pair the credentials of one store with
\* the providers of the other.)
StoreLoads ==
    cli = Idle /\ ~observed.raced
        => /\ ValidDocuments(Stored.relays, Stored.models)
           /\ (Stored.env \cap Providers) \ Configured(Stored.relays) \subseteq observed.orphans

\* The store holds what the operations acknowledged one after the other have
\* made of it: none loses what another wrote, and none is half done.
NoUpdateLost ==
    up /\ admin = Idle /\ observed.want # NoStore => Stored = observed.want

\* What the store holds comes into force, as long as it can be loaded.
ChangesComeIntoForce ==
    <>[](up /\ CanLoad) => <>[](inForce = Effective)
================================================================================
