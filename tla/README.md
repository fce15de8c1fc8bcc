# Verification of the contract verification server

The program (`src/Web/`) is a Go HTTP server. A contract author uploads the
sources of a Neo N3 contract, the contract's hash and the name of a compiler;
the server compiles the sources, asks a node for the script the contract has on
the chain, compares the two, and if they are equal records the contract version
as verified, with its sources, in MongoDB. One container of it runs for each of
three networks. `src/pkg/mod` is a copy of the Go module cache (1.6 million lines
of other projects) and is not part of the program.

There are no documents and no tests; what the code is meant to do is taken from
its comments, messages and structure.

## The system and its parts

| Part | State | Operations | Modules |
|---|---|---|---|
| `multipleFile` (main.go 87-273), one goroutine per request | the maps `m1`, `m2`, `pathFile`, `chainNef`, `sourceNef` | receive the form, compile, ask, compare, look up, insert, answer | `Verifier` |
| `execCommand` (289-527), `pythonExec.sh`, `goExec.sh`, the image | tables from version to command to environment to compiler | choose, start, wait, look for the `.nef` file, read it | `Toolchain`, `Verifier` |
| upload folders (`createDateDir`, `GetNameBySuffix`, `RemoveAll`, `Rename`) | one folder per clock second; folders renamed to a contract hash | make, write, list, remove, rename | `Workdir` |
| Gradle project (`javaExec.sh`, `javacontractgradle/`) | `build.gradle`, `src/main/java`, `build/neow3j` | the commands of the script | `JavaWorkspace` |
| `getContractState` (547-607) and the node | scripts of each contract, update counter | ask; update a contract | `Verifier` |
| MongoDB | `VerifyContractModel`, `ContractSourceCode` | `FindOne`, `InsertOne` | `Database` |
| `Start.sh`, `Dockerfile` | an image and a container per network | stop, remove, build, run | `Deployment`; `Verifier` (`Redeploy`) |
| `RUNTIME`, `OpenConfigFile`, `intializeMongoOnlineClient` | the network of a container | choose node and database | `Deployment` |
| `FungibleToken.java`, the contract in the Gradle project | `assetMap`, `totalSupply` | transfer, deploy, update, destroy, verify | `FungibleToken` |

Handlers share the working directory (two requests of one second even share a
folder), the Gradle project (all neow3j requests), the database and the process:
`log.Fatal` in one handler ends all of them. Nothing is locked.

What is hard here, and hence listed under `hazards` in `PROJECT.json`:
interleavings on the shared folder and project; the lookup and the insert being
two calls; the process dying between two inserts; files of earlier requests
being taken for results of this one; tables in three files that have to agree;
peers that never answer; the chain moving on while a request is under way.

What makes each part correct:

* records and answers: a record is true of the chain for good, an answer is
  backed by a record, a contract version is recorded once, with the sources
  that were compiled;
* compilation: the script compared is that of the request's own files, made by
  the compiler named in the form;
* folders: there while the handler runs, removed on the paths that mean to;
* process: dies for no form but those named in `FatalForm`;
* progress: a request hangs on nothing but a peer: client, compiler, node or
  MongoDB;
* networks: node, database and container of a request belong together, and a
  redeployment leaves the network served by a new build;
* the token: balances add up, are what the events say, and fall only with the
  consent of their owner.

## The modules

`Toolchain` <- `Workdir` <- `JavaWorkspace` and `Database` are put together by
`Verifier`. `Registry` is the abstract specification, of `Verifier` and, once per
network, of `Deployment`. `FungibleToken` stands alone. The `MC` modules hold the
instances for TLC, the `...Proofs` modules the proofs:
`VerifierProofs` <- `IsolationProofs` <- `CompilationProofs` (with
`ToolchainProofs`) <- `SourceProofs`, `RefinementProofs` beside them, and
`DeploymentProofs` and `TokenProofs` on their own.

**Toolchain** has the tables as sets of pairs: `BoaTable` (execCommand),
`PythonExec` (pythonExec.sh), `Venvs` (Dockerfile). `Runs(version, command)` is
the composition of the three: what really executes.

**Workdir**: `dirs[s]` is the folder of second `s`. A file name is a base and an
extension; bases are integers, in the order in which `ReadDir` sorts. Those
below 0 begin with a dot (shell patterns and the go command pass over them,
`Visible`), those in `LongBases` are longer than the file system takes, so that
their file cannot be created and the part is lost without a word. `BinName` is a
file called `bin`, which stands where nccs makes its folder. A text file is a
sequence of blocks, so that `Overwrite` can say what a write without `O_TRUNC`
leaves. A script is a pair of compiler and source tree: equal scripts mean that
the same compiler has read the same sources. A `.nef` file that does not parse
is `Garbage`.

**JavaWorkspace**: one operator per command of `javaExec.sh`, removing the old
`build.gradle` and copying the new one being two of them. A new container
starts with the `.nef` files that are in the repository.

**Database**: two sets of documents, each tagged with the request that inserted
it in place of the driver's `_id`.

**Verifier**: `pc[r]` is the program point of request `r`:

| `pc` | code | actions |
|---|---|---|
| `new`, `recv` | 87-146 | `Arrive`, `ArriveNotMultipart`, `SavePart`, `LastPart`, `ClientGone` |
| `exec` | 292-434 | `UnknownVersion`, `StartFails`, `StartNothing`, `StartCompiler`, `StartJavaExec` |
| `jclean`, `jgradle`, `jconfig`, ... `gradle` | javaExec.sh, a program point per command | `JavaExec`, `RunGradle` |
| `compile` | 436-441 | `CompileSucceeds`, `CompileFails` |
| `look`, `stat` | 447-474 | `LookForNef`, `PickJavaNef`, `StatJavaNef` |
| `read` | 475-514 | `ReadNef`, `ReadNefFatal` |
| `rpc` | 547-607 | `NodeAnswers`, `NodeBlank`, `NodeFails` |
| `cmp` | 162-171, 263-271 | `Mismatch`, `Connect`, `ConnectFatal` |
| `find`, `dup`, `ins` | 172-188, 252-261 | `FindVerified`, `AlreadyVerified`, `InsertVerified`, `InsertVerifiedFatal` |
| `list`, `src` | 189-251 | `ListSources`, `RecordSource`, `RecordSourceFatal`, `Finish` |
| `done`, `panic`, `dead` | response sent; recovered panic; process gone | - |

`resp[r]` is the `Code` of the response (500 for the HTTP status of line 98). By
who is waited for, the steps are `Receive` (client), `Build` (compiler),
`AskNode`, `AskDatabase` (MongoDB) and `Handle` (nobody). `NotMissing` is the
test of line 474, which goes on for every error of `Lstat` but `IsNotExist`;
`HasFilename` says when lines 129-142 give `Filename` the name of something that
may exist. `NodeBlank` is an answer without a script, also one cut off before it
(line 584 drops the error); the node is taken to send the counter ahead of the
script. Steps of the environment are `ClockTick`, `ChainUpdate` and `Redeploy`.
The constant `Faults` says which failures may happen (client, start of a
process, network, node, database connection, lookup, insert); an insert that
fails may have been applied. `Arrivals` restricts when requests come: at any
time, one per second, or one after the other.

Definitions that occur nowhere but just before the one they resemble
(`AnyScript` before `Matches`, `KeepFolder` before `RemoveAll`, ...) are
seeded faults, listed under `mutants`: with each put in the place of its
neighbour, TLC finds the property it belongs to violated.

Abstractions: the copy of one part of the form is one step; a compiler reads all
its sources in one step and writes its output in another; texts, headers and
logging are left out; the `id` field, which nothing reads back, is left out. The
binaries of C# compilers 3.0.x (`a/`, `b/`, `c/`) are not in the repository; the
model takes them as installed, and a start that fails is one of the faults.
`GetNameBySuffix` matches the regular expression `.nef$`, whose dot is any
character; names that only match for that reason are not modelled. Nor are names
with a path separator: line 126 joins the name of a part to the folder as it
comes, so that such a name may lead out of the folder, or into a folder that is
not there. What is said below about requests that keep to their own folders is
about names without one.

The Contract field is used as typed: as the key of the documents and as the name
of the kept folder. The node accepts several spellings of one hash, so the model
has `Spellings` and what each `Denotes`. The `faults` run has two spellings of
one contract: records and answers stay true, and `Registry`, whose records are
about contracts, is still implemented. `UniqueRecords` counts per contract; it
holds in the `serial` run, which gives each contract one spelling, and could not
with two, since line 173 looks for the spelling.

**Deployment**: `Start.sh` as a table of blocks and a list of commands, which
`Command` performs one by one, whatever became of the ones before (there is no
`set -e`); `docker` as five operators that do nothing when docker would refuse
(a name that is taken, an image that is missing or in use). The image of a
network remembers the commit it was built from. `Served` is the set of networks
that an earlier deployment, from commit 0, has left with an image and a running
container, so that a run of the script meets both a host that is new and one
that is not. Requests are reduced to what
depends on the network: node, lookup, insert, answer. A container can be run by
hand without `RUNTIME`, which the commented-out line 7 of the Dockerfile leaves
unset. `config.yml` is not in the repository; that it names three different
databases is assumed.

**FungibleToken**: `chain` is the committed storage, `view` what the running
transaction sees of it. A call that throws before it writes anything is `Fault`
when nobody catches it, and no step when a contract does, so the guards of an
action are the conditions under which the method gets past its checks. The
manifest permits calls to `ContractManagement` only: `onNEP17Payment` of a
contract can be called only if it is marked safe; otherwise the exception comes
after the writes, and a contract that catches it may find them kept. `fired` is
the sum of the Transfer events about each account.

**Registry** has the history of each contract, a set of records and what each
requester was told. It promises: a record carries the script of a version the
contract has really had; records stay; "verified" needs one's own record,
"already verified" somebody else's for the same version; one answer per
requester, and a requester told anything else has no record. It promises neither
uniqueness of records nor sources: the code does not keep these when requests
overlap or the process dies (see below).

## The runs

The runs of `Verifier` use at most two requests and one contract with up to two
versions. Two requests are enough for every interaction found: what is shared is
a folder, the Gradle project, a document or the process, and each hazard is
about one request disturbing another. Texts of two blocks and of one are enough
for a partial overwrite. Three seconds let a request begin after the other's
folder has been left behind. Requests are interchangeable; the runs for safety
use that symmetry.

| Run | Instance | Shows |
|---|---|---|
| `faults` | any arrivals, all faults, two seconds, two versions, Python | `TypeOK`, `VerifiedMatchesChain`, `AnswersBacked`, `Inv`, refinement of `Registry` |
| `serial` | no overlap, all faults but a failing lookup, neow3j and Python | `UniqueRecords`, `CompiledFromOwnUpload`, `SourcesExplainVerdict` |
| `spaced` | one arrival per second, overlap, Python and C#, client and node faults | `CompiledFromOwnUpload`, `SourcesExplainVerdict`, `FolderLifetime`, `ServerStaysUp` |
| `forms` | no overlap, fourteen kinds of form | `OnlyFatalFormsKill`, `CompiledAsRouted`, `GoNeverCompared` |
| `progress` | fairness, any arrivals, Python and neow3j | `HandlerProgress`, `EveryRequestSettles` |
| `deployment` | two runs of Start.sh for testnet, which is already served, a container by hand that counts as mainnet, two requests, one contract version per network (none on testmagnet), one further commit, docker and server failures | `TypeOK`, `RecordsWhereSent`, `UpAfterStart`, `NetworksApart` |
| `token` | owner, a user, a contract and the token itself, three tokens, one update | `TypeOK`, `Conserved`, `EventsExplainBalances`, `Consent` |

In `deployment` two runs of the script are enough for every order of two of its
commands, and two requests for one to find the other's document. In `token`
three tokens distinguish a transfer of all, of some and of none.

Five runs show where the code does not do what its comments say; each is a
finding in `PROJECT.json`, with the comment:

| Run | Shortest story |
|---|---|
| `record_race` | two requests for one version both find nothing, both insert |
| `same_second` | a request of the same second changes the shared folder between compilation and recording |
| `java_race` | two neow3j requests, in different seconds, build in the same project; one compares the other's script |
| `lost_sources` | redeployment after the first insert: verified without sources, for good |
| `stale_nef` | a `.nef` file sent along with the sources is compared in place of what they compile to |

Three more findings are about what happens every time, and are stated by
properties that hold in the `forms` run: `OnlyFatalFormsKill` (a compilation
that fails should be answered with code 2; `FatalForm` lists the forms for which
it may end the server instead, since `Lstat` fails otherwise than by
`IsNotExist`, or finds the directory because `Filename` is empty),
`GoNeverCompared` (a neo-go program that compiles kills the server, since
`out.nef` is checked for and `bin/sc/.nef` is read, so that no neo-go upload
ever gets a verdict) and `CompiledAsRouted` (every upload is compiled by the
compiler it names, but for neo3-boa 0.7.0, which 0.8.3 compiles).

`serial` and `spaced` are the other half of these findings: they show under
which circumstances the same properties do hold, and so which assumption (no
overlap, different seconds, no neow3j) each of them needs.

Fairness: `FairSpec` has weak fairness of `Handle(r)`, the steps a handler takes
by itself; the Go scheduler gives each runnable goroutine its turn, and local
file operations return. Nothing is assumed of clients, compilers, the node and
MongoDB, since the code sets no timeout on any of the four: its database calls
run under `context.TODO()`, and the driver says of the default `SocketTimeout` that
operations "can block indefinitely" (mongo-driver@v1.7.3,
mongo/options/clientoptions.go:659-661). `EveryRequestSettles` has their cooperation
as an explicit premise (`PeersRespond`) and so says that a request can hang on
nothing else. With `HandlerProgress` there is no premise: a handler never stays in
a step of its own (`OwnTurn`).

Deadlock is checked in all runs but `deployment`, where the bounds on commits,
requests and runs of the script let the host come to rest.

## The proofs

Every property of the passing runs is also a theorem, but for the two liveness
properties. Each theorem is about all values of the constants: any number of
requests, contracts, forms and seconds, any spellings and arrivals, and any
faults. The assumptions in `Verifier` say only that uploads are forms, that
deployable scripts are scripts, that every spelling denotes a contract and that
`None` and `Garbage` are not mistaken for a value. Where a property needs more,
the theorem has it as a premise, and the passing run that checks the property
has constants that meet the premises.

### What is recorded and answered, whatever happens

| Theorem | States | Premises |
|---|---|---|
| `VerifierProofs.Invariance`, `TypeCorrect` | `Inv`, `TypeOK` | none |
| `VerifiedMatchesChainHolds`, `AnswersBackedHolds` | `VerifiedMatchesChain`, `AnswersBacked` | none |
| `RefinementProofs.Refinement` | `RegistrySpec` | none |

None of these properties is inductive. That a document is true of the chain
needs to be known of the request while it still carries the values in its local
variables: `ReplyInv` says that from the node's answer on, script and counter
agree with the chain's history (which only grows), and from the comparison on
that the script is the request's own. `AnswerInv` ties the program points after
the insert, and codes 5 and 6, to documents; `DocumentInv` ties each document
back to a request that is past the insert and still holds the values it was made
from (so that no later step can change them); `SourceInv` does this for sources.
`FormInv` gives the types that hold only at certain points. The proof has one
lemma per group of actions; `OthersInv`, `OthersDocuments`, `EarlyStep`,
`LateMove` and `KillStep` say once what a step of one request does to the rest.

The refinement maps a document to a record with the script its author holds, and
a response to what was told. `NoDocument` (a request that has not inserted is the
author of nothing) is what makes reading a script or asking the node invisible
to the registry.

### Requests that do not disturb each other

The other properties of `Verifier` are false in general; the five runs with a
counterexample show it. The theorems say what is enough to make them true.

| Theorem | States | Premises |
|---|---|---|
| `IsolationProofs.FoldersLastAsMeant` | `FolderLifetime` | no two requests arrive in one second (`Spaced`) |
| `IsolationProofs.RecordsAreUnique` | `UniqueRecords` | requests do not overlap, lookups do not fail, one spelling per contract |
| `CompilationProofs.NeoGoIsNeverCompared` | `GoNeverCompared` | `Spaced` |
| `CompilationProofs.OnlyFatalFormsKillHolds` | `OnlyFatalFormsKill` | `Undisturbed`; connecting and inserting do not fail |
| `CompilationProofs.ServerSurvives` | `ServerStaysUp` | the same, and every form is `Harmless` |
| `CompilationProofs.OwnUploadIsCompiled` | `CompiledAsRouted` | `Undisturbed`, `Plain` |
| `CompilationProofs.NamedCompilerCompiles` | `CompiledFromOwnUpload` | the same, and no form is for neo3-boa 0.7.0 |
| `SourceProofs.SourcesExplain` | `SourcesExplainVerdict` | `Undisturbed`, `Plain`, `AllSeen` |

`Undisturbed`: the requests do not overlap, or arrive in different seconds and
none is for neow3j. `Plain`: no form has two files of one name, a name that is
too long, a file called `bin`, a `.nef` file that parses, or (neow3j) a Gradle file
under another name than the script copies. `AllSeen`: the compiler sees every
program file of the form, none being hidden by a dot in front of its name.
`Harmless`: not for neo-go; if for neow3j, the last `.csproj`, `.py` or `.java` file
has a name that neither begins with a dot nor is too long; if for a C# compiler, no
file called `bin`; if for neo3-boa, no `.nef` file that does not parse. It is the
negation of `FatalForm`, form by form, so that `ServerSurvives` and
`OnlyFatalFormsKillHolds` rest on the same invariant.

Most premises have a run that shows what happens without them: `same_second`
(`Spaced`), `java_race` (no neow3j among requests that overlap), `record_race`
(no overlap, for `UniqueRecords`), `stale_nef` (`Plain`, for a `.nef` file). The
others have none, but are needed: a lookup that fails lets a request insert what
is there already (line 178 takes any error for "not there"), and with two
spellings line 173 finds nothing; a file name sent twice, the second time with
less content, leaves the end of the first file (`Overwrite`), so that the folder
is not what the author sent; a program file that begins with a dot is recorded
but not compiled (`AllSeen`). No theorem assumes that client, compiler or node
do what they should, or that the process survives; the two that say what ends
the process assume that connecting to the database and inserting do not fail,
since the code ends the process when they do.

What makes each of them inductive:

* `FolderInv` adds `OwnFolders` (requests that have arrived have different
  folders) to `FolderLifetime`: without it a handler that removes its folder
  might remove that of another. `StepConfined` says once, for all actions, that
  a step of a handler touches its own folder only and what may become of it.
* `AloneInv` adds that one request at a time is in progress, and that at `ins`
  what was not found is still not there: the gap between lookup and insert.
* `Base`, `JavaAlone` and `OwnOrKept` carry this over to everything a request
  relies on: a step is its own, or leaves its variables, and its files as long
  as it lives, as they were (`Kept`); `GradleKept` is the same for the Gradle
  project and its one user.
* `ReadInv` says that a `.nef` file that was found is there, and parses, when it
  is read, but for the fatal forms, and that what `ListSources` has listed is
  there when it is opened; for that, `NefInv` says that a `.nef` file that does
  not parse, or a file called `bin`, comes from the form, and `RouteInv` which
  versions get as far as a compiler. `DeathInv` keeps the witness for a death
  after it has happened.
* `CompiledInv` follows the files: what lies in the folder is the parts received
  so far (`SavedInv`, by way of `TreeIsParts` what a compiler sees); each
  command of `javaExec.sh` leaves what the next ones need (`GradleInv`), so that
  nothing of an earlier build or a killed one is left in what Gradle reads or
  `execCommand` picks; every `.nef` file in the folder that parses (`OutInv`),
  and then the script that is compared (`ResultInv`), is a result of the form.
* `RecordedInv`, for the loop over the folder: what has been recorded and what
  is still on the list make up the program.

`ToolchainProofs` has the tables: `BoaCompiler` goes through all three for every
neo3-boa version, `RunsAsRouted` is what follows for any Version and
CompileCommand, and `ProgramsAreRecorded` that the filter in front of the
inserts keeps the program files of every family.

### Deployment

For any operators, clients, contracts, scripts and commits, any networks served
before and any unknown values of `RUNTIME` (assumed: these are not names of
networks): `TypeCorrect`, `DocumentsAreWhereSent`, `StartBringsUp`,
`NetworksAreApart`, with no further premise.

`RequestInv` and `RecordInv` say where a request's values and a document come
from, as for `Verifier`, but per network; `Placed`, that a container of a network
has that network's `RUNTIME`, ties them to `Start.sh`. `NetworksAreApart` is a
refinement of `Registry` for each network, step by step: `ToldOnStays` and
`NetStays` say that what happens in another network is no step in this one.
`UpAfterStart` needs `StartInv`, which says, command by command, what the runs
of the script for a network have achieved so far while some of them are still
under way: who is past `stop` has left a container only from a new build, who is
past `build` an image, unless another run is just about to make one, and so on.
A container from the old image is ruled out by the order of the commands:
whoever runs the image is past a build, and `BuiltInv` says who is not.

### The token

For any accounts, contracts, supply and number of updates (assumed: the supply
is positive, owner, users and contracts are different):

* `TokenTypeCorrect`: no balance is ever overdrawn;
* `ConservedHolds`, `EventsExplainBalancesHolds` and `ConsentHolds`: the other
  properties of the run.

The invariant, `TokenInv`, adds two things. `FreshEmpty`: nothing is stored, and
no event fired, before `deploy`. `ConsentSoFar`: what `Commit` would make of the
view at this point is what `Consent` allows, which carries the argument from
the call that debits an account to the commit that makes it last. `MovedBalance`
says what the deducting and adding of lines 72-75 does to every balance, the
case of a transfer to oneself included; `WriteInv` reduces every method to what
it does to the view.

`Conserved` counts the tokens held one by one (`Holdings`) rather than adding up
balances: a sum over a set would need induction over data, a cardinality does
not. `OneBalanceChanges` says that the count changes by as much as the one
balance that changes; `MovedHoldings` uses it twice, for the deduction and the
addition. The inductive `SupplyInv`, on top of `TokenInv`, adds that what is held
is finite, of storage as committed and of the view.

### Only model-checked

`HandlerProgress` and `EveryRequestSettles`, since liveness under fairness is
outside this prover's reach. The properties of the five runs that end in a
counterexample hold only under the premises above, and `VerifiedHasSources` not
even then: a redeployment between two inserts needs no other request.

## Not modelled, and the plan

Every state change of the program's own code (`src/Web`) is an action of some
module. Not modelled:

* `src/pkg/mod`, the vendored module cache. It is nearly all of the repository
  by lines (character tables, database driver, HTTP and crypto libraries) and
  not code of this system; the few calls the program makes into it are external
  definitions (`FindOne`, `InsertOne`, `nef.FileFromBytes`). A map of lines over
  the whole tree therefore covers next to nothing of it, and cannot do better
  without specifying other projects.
* `verifyNef`, which nothing calls; the metrics endpoint and the CORS wrapper,
  which keep no state of this program; the read-only methods of the token.
* file names with a path separator (see the abstractions under Verifier), and
  answers of the node cut off after the script but with the counter still to
  come.
* MongoDB clients and child processes that are never released: one more per
  request by construction, with no limit in the code to check against.

Planned: weaker premises where the proofs allow it (`Undisturbed` could let neow3j
requests overlap with those of other families, and could be about the pairs of
requests that really meet), and `NetworksAreApart` from a module shared with the
refinement of `Verifier`, whose lemmas it repeats for each network.
