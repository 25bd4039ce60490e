# NetKAN-Infra in TLA+

TLA+ models of the services in `netkan/netkan/`, TLC configurations that check
them on small instances, and proofs that TLAPS checks for every instance. The
models are written from the Python code; a path in this file is relative to the
root of the repository.

## The system

NetKAN-Infra keeps the CKAN metadata of game mods up to date. Its services are
separate processes, one task each (`DesiredCount=1`, `prod-stack.py:1082-1093`),
which share SQS FIFO queues, a DynamoDB table (`ModStatus`) and Git repositories
on GitHub. No service catches the exceptions of its main loop: the process ends,
the container is replaced, its `/tmp` with all clones is gone, and SQS delivers
again what was not deleted.

| Part | State it keeps | Operations | Talks to |
|---|---|---|---|
| Scheduler (`scheduler.py`) | none | `can_schedule`, `schedule_all_netkans` | fills the Inbound queue of each game |
| Inflator (C#, other repository) | a download cache | inflates one mod | Inbound queue to Outbound queue |
| Queue loop (`queue_handler.py`) | handlers by game, batch in flight | `run`, `game_handler`, `append_message` | SQS |
| Indexer (`indexer.py`) | deques, a clone of CKAN-meta per game | `process_messages`, `process_ckan` | queue loop, Git, GitHub, status table |
| Git repositories (`repos.py`) | clones and their branches | clone, commit, pull, push, `change_branch` | GitHub, where others push too |
| SpaceDock Adder (`spacedock_adder.py`) | a clone of NetKAN per game | `process_messages`, `try_add` | queue loop, Git, GitHub |
| Mirrorer (`mirrorer.py`) | a clone of CKAN-meta, the download cache | `process_queue`, `try_mirror`, `purge_epochs` | SQS, Internet Archive |
| Status table (`status.py`) | one row per mod of a game | export, restore, `recover_timestamps` | DynamoDB, S3 |
| Auto-Freezer (`auto_freezer.py`) | none | `freeze_idle_mods`, `mark_frozen_mods` | NetKAN clone, GitHub, status table |
| Download Counter (`download_counter.py`) | the counts of the last run (a file in CKAN-meta) | `update_counts` | GitHub, SpaceDock, Internet Archive, Git |
| Webhooks (`webhooks/`) | clones shared by the workers | one handler per route | queues, clones |
| Versions (`metadata.py`) | none | `Version.__lt__` and the rest | used wherever "newest" is asked |
| Ticket Closer (`ticket_closer.py`) | none | closes stale issues | GitHub |

### What is hard here

* *Redelivery.* A batch is deleted only after it was processed, by another call;
  a crash, a slow batch or a failed delete brings it back, possibly after newer
  messages.
* *Other writers.* People, the other services and merged pull requests push to
  the branches the services pull and push, at any time.
* *Half-done work.* Commit, push, pull request, status row and delete are five
  calls to four systems, in this order, with nothing that undoes them.
* *Branch switching.* One working tree per game serves the primary branch and
  every staging branch; an exception inside `change_branch` leaves it anywhere.
* *Results nobody reads.* `push_remote_primary` (`repos.py:82`),
  `delete_messages` (`queue_handler.py:100`) and the refusal of a pull request
  (`github_pr.py:43-53`) are dropped.

### What makes the parts correct

* Queue loop: what a handler works on is still stored and is worked on by it
  alone; deletes keep the order of a game's messages; whatever is not processed
  stays; every message of a configured game is deleted in the end.
* Git repositories: a clone never undoes what others pushed; a staging branch
  carries its own file only.
* Indexer: deleted means published (or refused by GitHub); once all is quiet
  GitHub has the newest content, and each row of the table (a mod of a game) the
  newest check, or the newest staged one if the newest was not staged; a staged file
  never reaches the primary branch without its pull request, and gets one.
* SpaceDock Adder: deleted means that someone has decided, or is asked to decide,
  about the mod; a branch adds one mod; a frozen mod is not added again.
* Mirrorer: deleted means uploaded, or not to be mirrored, or not downloadable.
* Scheduler and webhooks: the Inflator ends with the newest content of every file
  that can be reached; a request answered 204 is in the queue; the queue never
  holds more than the limit and one pass over the mods.
* Status table and Auto-Freezer: a save of a whole row undoes no update of a mod
  that is not frozen; a mod that stays frozen is marked so; only idle mods are
  proposed.
* Download Counter: each source that answered is counted once and none is left
  out; the file is right in the end whatever fails on single days.
* Versions: the release that is counted has no newer one.

## Modules

| Module | What it is |
|---|---|
| `SqsFifo` | an SQS FIFO queue, external |
| `QueueHandler` | the loop of `queue_handler.py`, with the handlers left open |
| `QueueHandlerProofs` | proofs about `QueueHandler` |
| `XkanRepo` | clones and GitHub: `repos.py`, `utils.py` |
| `XkanRepoProofs` | what each operation of `XkanRepo` preserves |
| `Indexer` | `indexer.py`, `github_pr.py`, on `SqsFifo` and `XkanRepo`; it implements `QueueHandler` |
| `IndexerInv` | the inductive invariant of the Indexer |
| `IndexerProofs` | proofs about the Indexer, on `XkanRepoProofs` |
| `SpaceDockAdder` | `spacedock_adder.py` and the hook that feeds it, on `SqsFifo` and `XkanRepo`; it implements `QueueHandler` |
| `SpaceDockAdderProofs` | proofs about the Adder, on `XkanRepoProofs` |
| `Mirrorer` | `mirrorer.py`, the hook that fills its queue and `clean_cache`, on `SqsFifo` |
| `MirrorerProofs` | proofs about the Mirrorer |
| `StatusTable` | `status.py`, `auto_freezer.py` and the hook for frozen mods, on `XkanRepo` |
| `StatusTableInv`, `StatusTableProofs` | the inductive invariant of the status table, and proofs about it |
| `Inflation` | `scheduler.py` and the hooks that send mods to the Inflator |
| `InflationInv`, `InflationProofs` | the inductive invariant of `Inflation`, and proofs about it |
| `Versions` | the order of versions of `metadata.py` |
| `DownloadCounter` | `download_counter.py`, on `Versions` |
| `DownloadCounterInv`, `DownloadCounterProofs` | the inductive invariant of the Download Counter, and proofs about it and about `Versions` |
| `MC...` | instances for TLC |

### SqsFifo and QueueHandler

A message is a position in the sequence of all messages ever sent, so FIFO order
is the order of numbers. `hidden` is the batch in flight. While it is in flight
nothing else of the message group is delivered (every sender uses one group per
queue), and deleting with a handle that has expired does nothing.

`QueueHandler` has one action per step of `run`: `Poll` (receive and append,
which creates handlers and skips messages without `GameId`), `PollExits` (a
message of an unconfigured game: `sys.exit` in `Game.args`), `Enter` (a handler
in the order of its creation), `Process` (one message), `Finish` (delete and
leave). `FinishPartly` is a DeleteMessageBatch with failed entries, `Reappear`
and `Overrun` the visibility timeout between rounds and during one, `Raise` an
exception, `Crash` the end of the task.

### XkanRepo

A branch is a tree, a function from files to contents; `NoTree` is a branch that
is not there. A merge is taken file by file. `base` is the merge base,
`behind` says that GitHub has commits the clone lacks (then a push is rejected),
`unpushed` is what was committed since the last push, `shown` is the history of
what a branch on GitHub has ever held. Commits themselves are not modelled.
A modify/delete conflict makes a pull fail even with strategy option `ours`.
`OpenTopic`, `PullTopic` and `CloseTopic` are the three parts of `change_branch`
between which others may push. Three services use it: the Indexer on CKAN-meta,
the Adder and the Auto-Freezer on NetKAN.

### Indexer

`step` says where `process_messages` is: `primary`, `push`, `staged`, and for a
message inside `change_branch` (`cur`) `merge`, `publish`, `propose`. The two
deques are the two halves of `batch[turn]`. Writing the file, committing it and
recording the status are one action: nobody else sees the clone, and a crash
between them is the crash before or after. An exception of the status table
inside `change_branch` still pushes the branch on the way out and then ends the
process; the model has the push followed by `Crash`.

`dropped` and `unproposed` are history variables: what GitHub refused without the
Indexer taking notice, and the branches the process pushed and died before it
asked for their pull request. They appear in the properties only, as their
exceptions: the message that comes again finds its metadata on the branch
(`metadata_changed`) and asks for nothing.

A row of the status table is that of a mod of a game (`Row`), as `ModStatus` has
both for its key. `process_messages` takes the staged messages of a batch after
the others, so for a row that messages of both kinds are about `QuietIsRecorded`
says what the code gives: the last check, or the last staged one if the last was
not staged.

### SpaceDockAdder

A file stands for an identifier: it is `Absent`, `Frozen` (there is a `.frozen`
file only), `Edited` by a person, or what `make_netkan` built, of which the model
keeps which sections it has. `step` says where `try_add` is: `next` (the next
request; `AlreadyListed`, `Add`, or `AddRaises` for a name that makes an empty
identifier and for a link that `urlparse` does not take), then `merge`, `publish`
and `propose` as for the Indexer. `PublishRaises` is a rejected push of the branch,
`ProposeFails` a refused pull request (`refused`, which is history). A request has
a text for its pull request that fits, that GitHub refuses as too long
(`ProposeTooLong`; where a pull request is open already its comment is refused, too,
which raises), or that `_pr_body` cannot write, and then it raises, after the branch
was pushed (`ProposeRaises`). `AddHook` is `webhooks/spacedock_add.py`.
Unlike the Indexer, `try_add` asks for the pull request each time, whether or not
anything was committed: so a death before it does no harm.

### Mirrorer

A message is the path of a `.ckan` file, and a path stands for one version of a
mod: one item of the archive, one URL, one entry of the cache. A zip is its
contents, and `Broken` an error page or a file cut short. `step` follows
`process_queue` and `try_mirror`: `update` (the pull), `next` (is the archive
overloaded, is the file there, can it be mirrored, is it mirrored), `look`,
`open`, `download`, `copy` (`open_download`, one step for each look at the
cache), `upload`, `source`. `aim` is `sha1` while the download is only wanted
for its digest. `Done` is a message put into `to_delete`, `NotDone` one that is
left, `Vanished` one deleted because of `FileNotFoundError` although its `.ckan`
file is there (`lost`).

The cache is on a volume shared with the Inflator and CleanCache: either may act
between any two steps. `InflatorStores` may replace a zip, `CleanZip` and
`CleanSidecars` remove files one at a time (of any age, where the code has an
age limit). `Hook` is `mirror_hook`: the path is the deduplication id, so SQS
drops a second message for it until `Forget`. `excused` are the paths whose last
change the code is known to lose, `swapped` those whose zip changed between
check and upload; both are history and appear only as exceptions of properties.
How long the archive takes to show a file is not modelled.

### StatusTable

A file of NetKAN stands for a mod; it is a `.netkan` file, a `Garbled` one that
`Netkan.__init__` cannot read, or a `.frozen` file; `Forms` says what people may make
of it. The weekly run reads every `.netkan` file before it marks anything, so it
goes on only while all of them are `Readable`, and ends otherwise
(`FreezerRaises`). Of a row
the model keeps the release date, whether there is a `last_indexed`, and `frozen`.
The Indexer looks a row up (`IndexerGets`) and then updates it attribute by
attribute or saves a new one (`IndexerWrites`). Three writers put whole rows:
they read the table page by page (`Scan` is what there is to read at first, `Read`
one action for each page) and put the
rows some time later in batches (`Put`), whatever was written in between: the
Freezer's `mark_frozen_mods` (`MarkReads`), `recover_timestamps`
(`RecoverReads`), and `restore_status`, which puts what an `Export` has read.
`fz` follows the weekly task: `find` (idle mods), `merge`, `publish` and
`propose` (its branch and pull request), `mark`. `HookGets` and `HookMarks` are
`freeze` of `webhooks/github_inflate.py`. `world` is the newest release of a mod;
`Release` brings one that is not idle. `idled` is history.

### Inflation

`Schedule` and `Refuse` are the two outcomes of `can_schedule`: credits at GitHub
and Amazon are nondeterministic, the number of messages is the queue's
(`Room`). `left` is what a task still has to look at, and `Send` takes one batch
of it: as many files as it takes to find `BatchSize` of the task's group
(`ReadFor`). A file that cannot be read raises and ends the task (`SendRaises`),
so nothing behind it is reached: `reached` is what is left, a function of the
files. A request to the webhooks finds its files (`InflateHook`,
`SpaceDockHook`), sends them batch by batch (`HookSends`), and may fail half way
(`HookRaises`, `HookFails`). `Inflate` is the Inflator, external: it takes up to
ten messages.

### Versions and DownloadCounter

A version is an epoch and parts, each a string and a number; of strings the model
keeps what `_string_compare` looks at. `Gt` is `Version.__gt__`, `Highest` is
`highest_version_module`: the maximum, prereleases left out, of the files in the
order `glob` lists them.

`work` is the walk of `get_counts` through the downloads of the newest releases,
`stage` where the run is. `repos`, `requests` and `cache` are those of
`GitHubBatchedQuery`: when enough requests wait they are asked (`AskFull`), in
queries of `MODULES_PER_GRAPHQL`, and `GraphResult` credits every mod whose
repository is in the cache. `AskRaises` is an exception in the middle of several
queries. Of a release the model knows whether its file can be read and whether it
has what `Ckan.downloads` needs. The walk reads all files of a mod and asks for the
downloads of the newest one outside of its `try`, so it gets no further than the
first mod where one of these fails (`Raises`, `Walked`), and the run ends there
(`WalkRaises`), each day anew. `LookSpaceDock`, `LookArchive` and `LookSourceForge` are the other hosts,
`LastSpaceDock`, `LastGitHub` and `LastArchive` the requests after the loop, whose
exceptions end the run (`RunRaises`). `Write` and `Push` are `update_counts`.
`answered` (who was answered for in this run), `failed` and `due` (what the file
should say) are history. A mod without an entry in the file has 0. That
the file, when it is there, was written by the Download Counter is assumed:
`log_top` reads it before it is written.

`CountedOnce` and `NoneLeftOut` speak of mods that are `Plain`: one download at
each host. The code is wrong about others. `add` keeps one repository of a mod, so a
second one replaces it while the request for the first waits (`download_counter.py:57`).
And a mod that names one repository twice is counted twice when a batch is sent
in between: the first answer takes the mod out of `repos`, `add` puts it back, and
`get_result` finds its count in the cache. The same holds for two downloads at
archive.org, which a mod has when its own download is there and `Ckan.downloads` adds
the mirror. The worlds of the run have such mods, beside the plain ones.

## Runs

| Run | What it checks | Bounds |
|---|---|---|
| `MCQueueHandler` | `WorkIsStored`, `DeletedInOrder`, `LoopInv` | 4 messages, batches of 2, two games and two kinds of stray message, 2 faults, no failed entries of deletes |
| `MCQueueHandlerLive` | `GoodIsDeleted` | 3 messages, failed entries of deletes, no exceptions |
| `MCIndexerMixed` | `IInv`, `PrimaryIsUnstaged`, `StagedAlone`, `StagedHasPullRequest`, `PushKeepsOthers` | one game, staged and unstaged messages, 3 messages, batches of 2, 1 fault, 1 push of others |
| `MCIndexerAcross` | `DeletedIsPublished`, `QuietIsNewest`, `QuietIsRecorded`, `LoopSpec` | two games and one that is not configured, failed inflations, 3 messages, 1 fault, 1 push of others |
| `MCIndexerLive` | `AllIsDeleted`, `AllIsPublished` | 2 messages, 1 fault, 1 push of others, failed entries of deletes |
| `MCIndexerPushed` | a violation: `EveryChangeIsPushed` | 2 messages, 1 push of others |
| `MCMirrorer` | `MirrorInv`, `ArchivedIsChecked`, `QuietIsMirrored`, `DeletedIsHandled`, `AllIsDeleted` | one path, 3 kinds of `.ckan` file, 2 zips, 2 messages, 2 faults, 2 acts of others |
| `MCMirrorerMismatch` | a violation: `MismatchIsKept` | one path, 2 messages, 1 fault, 1 act of others |
| `MCSpaceDockAdder` | `AdderInv`, `DeletedIsAnswered`, `AddedAlone`, `LoopSpec`, `FrozenStays`, `EveryRequestAnswered` | one game, six kinds of requests: for two mods, with texts that fit, are too long or missing, with a malformed link, for a mod without a name and for another game; 2 messages, batches of 2, 1 fault, 1 act of others, failed entries of deletes |
| `MCStatusTable` | `TableInv` (with the types), `OnlyIdleFrozen`, `OnlyFrozenRowsGoBack`, `FrozenIsMarked`, `RowIsCurrent` | a mod with releases and one whose `.netkan` file is garbled, both frozen and thawed by people, an idle and a current date, 2 pushes of others, 1 command or crash |
| `MCDownloadCounter` | `CounterInv` (with the types), `CountedOnce`, `NoneLeftOut`, `NewestHasNoNewer`, `FileIsRight` | 4 mods, queries and requests of 2, 2 failed requests, 1 push of others, triples of 7 versions, worlds with a file that cannot be read or has no download |
| `MCInflation` | `InflationInv` (with the types), `AnsweredIsQueued`, `QueueBounded`, `NewestIsInflated` | two games with three mods and one, batches of 2, limits 0 and 1, requests of up to 3 identifiers, 2 edits, requests or failures |

For the queue loop and the Indexer three messages with batches of two are two
rounds, one of them with two messages: enough for an old content to come back
after a newer one, for two staged files in one batch, and for a batch that spans
two games. One push of others is enough to come between any pull and the push
after it; one fault to hit any step. `MaxSent`, `MaxFaults` and `MaxEdits` are the
only bounds; where a run leaves out failed entries of deletes (`DeletesFail`), it
is because its property is about order or newest contents, which they void.

For the Mirrorer two messages for one path are a change of its `.ckan` file with a
request in flight; two acts of others are a zip replaced at the host and in the
cache, or cached and cleaned; two faults are a crash in the middle of a copy and
a redelivery on top of it.

For the Adder two requests are the same mod twice, or two branches in one batch;
the act of others freezes or adds a mod, pushes to a branch, or refuses a pull
request. For the status table one mod with releases is enough because rows do not
meet; the other one is there for its file, which ends the Freezer's runs while it is
garbled. Two pushes freeze a mod and unfreeze it, or freeze one and garble or freeze
the other. For the Download Counter four mods with
queries of two fill a query, leave a rest, let a dead repository take the place of
a living one, and share repositories across queries. For the Inflation three mods
with batches of two are a full batch and a rest, one of them unreadable; a request
has at most `MaxRequest` identifiers, which only the bound on the queue speaks of.

Deadlock is not checked: when all messages are sent and deleted the system rests
(an empty poll changes nothing), and the tasks wait for the next day.

*Fairness.* The process takes its next step while it lives, and the visibility
timeout passes (weak fairness): the loop has no blocking call without a timeout.
A poll that is repeated for ever sometimes returns as much as it may (strong
fairness): the queues use long polling, and SQS returns fewer messages now and
then, not always. Exceptions, crashes, late batches, pushes of others and
refusals are never fair, and bounded. The Adder assumes what the Indexer does.

For the Mirrorer the webhook answers GitHub besides; its other steps, and that
nothing goes wrong, are as above.

In `Inflation` the tasks and the Inflators take their steps, and not every check
of a task at a game refuses (`Admitted`): credits come back every hour or month,
and an Inflator empties its queue between two runs of a task. In `StatusTable`
the Indexer, the Freezer and pending puts take theirs; nothing is asked of
people, commands or GitHub's calls of the webhooks, nor of the Scheduler while a
`.netkan` file cannot be read. In `DownloadCounter` the task
is started again and again (`[]<>(stage # "off")`: it is scheduled every day) and
a run takes its steps.

*Exemptions.* Some inputs end a service each time it comes to them, until people
repair them, and the liveness properties are stated for the others. A request ends
the Adder at every delivery (`Ends`) when its link is malformed or its mod has no
name, and, for a mod that is not in NetKAN, when its text cannot be written or is
too long for a comment on the open pull request: then `EveryRequestAnswered` asks
for nothing, as the requests behind it are never reached. `FrozenIsMarked` and
`RowIsCurrent` ask for nothing while a `.netkan` file cannot be read, nor does
`FileIsRight` while a file of CKAN-meta ends the walk. Both tasks go through their
games one after the other and an exception ends the task: the models are of its
first game.

*The violations.* `README.md:24` says the Indexer pushes metadata that is
different or new. `MCIndexerPushed` shows a run in which someone pushes between
the pull and the push of `process_messages`: the push is rejected,
`push_remote_primary` does not look, and the message is deleted. When the same
content is inflated again it is equal to the clone's, so it is not pushed until
another file of the game changes or the clone is made anew.

`mirrorer.py:186` says a file that does not match its hash is deleted together
with its `.sha1` and `.sha256` files and `None` returned, upon which `try_mirror`
would keep the request. `MCMirrorerMismatch` shows the request deleted: the two
files are not there, `unlink` raises `FileNotFoundError`, and `process_queue`
takes that for a `.ckan` file that is gone.

## Proofs

TLAPS proves, for every value of the constants (under their assumptions):

* `QueueHandlerProofs`: `LoopInvariance`, `WorkStored`, `SkippedKept`, and
  `DeletesInOrder` for `DeletesFail = FALSE`. `LoopInv` adds to the properties
  that what is processed is of the running handler's game, that the batch in
  flight is a prefix (game by game) of what is stored, and that while a round
  goes on a handler still holds all that is in flight for its game: so a delete
  takes everything of its game up to the newest, which is the order claimed.
* `XkanRepoProofs`: a lemma for each operation: it keeps the types and
  `RepoInv`. `RepoInv` relates a clone to GitHub: what is in it was on GitHub or
  is unpushed, and when no one else has pushed the merge base is GitHub's tree.
  The proofs about the Indexer and the Adder rest on them.
* `IndexerProofs`: of `IInv` (`IndexerInv`), in its parts.
  * `TypeCorrect`: `Shape` is types, `Flow` (where the handler is, whose messages
    it has, which branch is checked out) and `RepoInv`.
  * `Refinement` (the Indexer implements `QueueHandler`, so what is proved of the
    loop holds of it) and `OthersKept`.
  * `DeletedPublished`: `Content` follows each message from the commit to the
    delete: before the push of the pass a processed message is on GitHub, refused
    or unpushed; after it, on GitHub or refused; unpushed commits outside of a
    pass were refused; and a staging branch of the clone holds nothing GitHub has
    not had.
  * `Unstaged` and `StagedApart`: `Apart` adds that also in the clone, what is on a
    staging branch besides its own file was on the primary branch, is unpushed
    there or was refused; it is kept because each pass comes back to the primary
    branch before the next message.
  * `StagedRequested`: `Asked` adds that a staging branch is on GitHub only with its
    pull request, or while the handler is about to ask for one, and that a branch of
    the clone is one of the two, too: so a message that finds nothing to commit has
    found a branch that was asked for.
  * `QuietNewest` and `QuietRecorded`, for `DeletesFail = FALSE`: `Ordered` is what
    the loop keeps (`LoopInv`, through the refinement), `InTurn` that a handler
    takes staged and unstaged messages each in their order. With these, `LastInClone`
    (the clone has what the last processed message for a file says) becomes
    `LastOnGitHub` when the message is deleted, and stays so: what comes again
    comes with all that followed it. `Recorded` is the same of a row of the status
    table, in three parts: a handler at its staged messages has processed all the
    others about the row (`PrimaryFirst`), so what it recorded last is the last
    staged one if there is any (`LastRecorded`), and the row keeps it once the
    messages are deleted (`LastStays`).
* `SpaceDockAdderProofs`: `Invariance`, `Answers`, `Alone`, `OnlyProposed` (the Adder
  never pushes to a primary branch), `FrozenKept` and `Refinement`. `Shape` is the
  types and the position of `try_add` (outside of `change_branch` the primary branch
  is checked out, inside it the mod that is added is not on the primary branch).
  `AdderInv` adds to it that the clone of a primary branch has no commits of its own
  (`NothingOwn`), that the clones hold only what they may (`CloneAlone`), and that
  what a handler has processed is answered (`DealtWith`): a message is deleted
  only out of that set.
* `MirrorerProofs`: `Invariance`, `Checked`, `DeletesHandled` and `QuietMirrored`.
  `MirrorInv` says of each step what the ones before it have established: while a
  message is tried its `.ckan` file is there and wants a mirror; before the upload
  the cached zip is the right one, gone, or replaced by the Inflator; before the
  source is archived the mod is; what is in `toDelete` was handled, judged by the
  clone of this batch. `NoneForgotten` is `QuietIsMirrored` for states that are not
  quiet: a file that is not mirrored as it is on GitHub now is excused, or the
  webhook will hear of it, or a message for it is stored that is not in flight, or
  in flight and not yet in `toDelete` with the clone up to date for its path.
* `StatusTableProofs`: `Invariance`, `TypeCorrect`, `IdleFrozen` and `RowsGoBack`.
  `TableInv` (`StatusTableInv`) has beside the position of the Freezer: no row is
  ever removed (`RowStays`); the rows the Freezer holds are of mods that are frozen
  in its clone (`FrozenInClone`); every release date, in a row, an export or a
  result on its way, is the newest or the idle one before it (`Dated`); and a
  result on its way is the only one of its mod and never older than a row of it
  (`Fresh`): without this the Indexer itself could take a row back.
* `DownloadCounterProofs`: `Invariance`, `TypeCorrect`, `CountedRight`, `NoneLeft`,
  `NewestChosen` and `VersionOrder`. `CounterInv` (`DownloadCounterInv`) follows a
  download through the run. `Position` and `Origin`: what the walk and the queries
  hold are downloads of the newest releases. For a plain mod `WaitsOnce` says that
  its download is in the walk or in a query, not in both, and `Unheard` that it was
  not answered for while it waits. `Known` ties the cache to the answers: a
  repository is in it exactly when GitHub answered, with its count, and a mod stays
  in `repos` until then. So `Summed` holds in the middle of a run, for the sources
  that answered and do not wait (`Got`), and at its end nothing waits: that is
  `CountedOnce`. `Reached` is `NoneLeftOut` for every step: while no request has
  failed, a living source is in the walk, was answered for, or is in a query that
  will still be sent. It needs that a query with living requests is answerable,
  which is where the repository asked for once (`TypeOK`) and the one mod that asks
  for it (`Plain`) come in.

  What the code sums, filters and maximises is folds. The library's induction
  theorems are out of reach, but its well-founded orders are not: if a claim failed
  for some prefix or subset there would be a least one, and the recursion equation
  refutes it there (`Least`, `LeastSet`, `Recursion`, `Unique`, `Along`). From this
  come `SumAdd` (the sum with one more source), `HighestIsMaximal` (of the releases in
  any order none is above the chosen one), `UnansweredIs` and `FlatIs`.
  `HighestIsMaximal` needs that `Gt` is a strict order, which `VersionOrder` states:
  with empty strings, absent numbers and prefixes.
* `InflationProofs`: `Invariance`, `TypeCorrect`, `Answered` and `ShortQueues`.
  `InflationInv` (`InflationInv`) counts what is still to be sent of a game: by the
  tasks (`TaskOwes`) and by the request at work (`HookOwes`). `Bounded` is
  `QueueBounded` with these added to the queue. When a task is let in, what it owes
  and what the other one owes have only mods in common whose file changed after one
  of the clones was made (`Stale`), and each of those took an edit, as each request
  took an event (`Counted`). `Looking` (a task has each file once) and `Answering`
  (what is asked for is sent or still to be looked at) complete it. The lemmas on
  `Nth` and `At` say what a batch takes from a list and leaves of it.

The assumptions on the constants are the `ASSUME`s of the modules; TLC evaluates
them in the runs.

Only model-checked: the liveness properties, which are out of the prover's reach
(`GoodIsDeleted`, `AllIsDeleted`, `AllIsPublished`, `EveryRequestAnswered`,
`FrozenIsMarked`, `RowIsCurrent`, `NewestIsInflated`, `FileIsRight`). Every invariant
and every other action property of the passing runs is a theorem.
`QuietNewest` and `QuietRecorded` are not claimed where DeleteMessageBatch fails for
single entries: then an older message may come again after a newer one is gone.

## Plan

The services of the repository are modelled. What would add most from here:

1. `CountedOnce` for mods with several downloads on one host, once `get_counts` keeps
   a list of them.
2. `purge_epochs` against the Mirrorer, if it ever becomes more than a command
   that is run once.

## Not modelled

The Inflator is C# in another repository: it is modelled from its queues. The mod
analyzer is a pure function on zip files whose results are text; that it may raise
is in `SpaceDockAdder`. The ticket closer is one pass over GitHub's issues, each
closed on its own. Notifications are logging. `purge_epochs` is a one-off command.
`SendMessageBatch` always takes all its entries. Of the deployment only the kind
of the queues, the number and the schedule of the tasks, the visibility timeouts
and the shared volume matter; `redeploy_service` restarts a service, which is a
crash. Left out on purpose: the graph of Git commits and merges within a file (a
merge is file by file), option parsing, signatures of webhooks, and identifiers of
games that differ in case only.
