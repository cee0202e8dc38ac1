# Self-hosted AI Stack: the verification project

TLA+ models of the stateful parts of this repository, the TLC runs that check
them, and TLAPS proofs about them. Sources are named relative to the
repository's root; `PROJECT.json` maps each definition to the lines it stands
for.

Run a model with `tlc -config MC_X.cfg MC_X.tla`, the proofs of a module with
`tlapm XProofs.tla`.

## The system and its parts

The stack is a set of small services around a local language model and a page,
`avatar/html/avatar.html`, which talks to all of them through its own nginx.
Sparkboard is a monitoring service beside them. Nothing is shared between
services but HTTP and a few folders.

| Part | State | Operations | Hard because | Correct when |
|---|---|---|---|---|
| Avatar maker (`avatar/scripts/avatar_maker.py`) | jobs, queue, wake-up flag; ZIPs in the published folders | `POST /jobs`, worker thread, pruning, status | event loop and worker thread; export that fails half-way; publishing to several folders | one job per name, none lost, done means published, callers get the promised order |
| Store (`sparkboard/app/store.py`, `sampler` and `lifespan` of `server.py`) | raw samples, minute rows, last pass | insert, rollup, backfill, prune, history | restarts in mid-minute, late passes, two retentions | no sample lost unlogged; charts complete; a rolled-up row keeps its samples |
| Login ban service (`avatar/authgate/authgate.py`) | position in the log, failures, bans, saved bans | follow, check, unban | a log that is appended to, truncated and rotated under the reader; saving under the lock | each line counted once; bans at exactly the right failure; file matches memory |
| Saved chats (`avatar/chats/chats.py`) | a file per chat, a lock per user | PUT, GET, DELETE one or all | threads; restart in mid-write; lost requests | creation time kept; saved chats stay |
| Page, conversation (`avatar.html`, `ask`, `chats`) | history, chat id, save timer, generation, turns in flight | ask, tool rounds, new, open, delete, save | every `await` lets anything else happen | answers stay in their chat |
| Music, songs (`avatar/music/music.py`) | cached files, FETCHING, DOWNLOADS | stream, prefetch, search, prune | threads pruning at once; single flight | one download per song, cache within its limit, every request ends |
| Music, lyrics and listening | lyrics files, HEARING, EARS, DEAF | lyrics, listen, match_lines | two writers of one file around awaits; a best path over many candidates | slips stand beside the lines they are of and are the best there are; a song is heard once |
| Music, searches and tokens | TOKENS, INFO, LEVEL_TASKS | search, mix, radio, podcasts, more, prefetch, stream, levels | tokens that two threads forget at once | results are what was asked for, and play for as long as promised |
| Home control (`avatar/home/home.py`) and the controls panel of the page | area map and its age, its lock; the panel's table | devices, set, command, poll | a lock held over HTTP; late answers beside polls; Home Assistant that fails | a lock is never opened from here; rooms are recent; the panel shows the house in the end |
| Sparkboard server (`server.py`) and dashboard (`static/app.js`) | live ring, latest, seq, process table; what the dashboard shows | two sampler threads, /api/now, event stream, pause, reconnection | reads across threads without a lock; connections and servers that come back | no sample missed, none shown after a later one, the dashboard catches up |
| Sparkboard proxy (`proxy.py`) and the dashboard's feed | ring of labels, counts, classifier flag, the last label seen | classify, poll | detached tasks, a retry that changes a flag, overlapping polls, numbers that start again | labels and no prompts leave, each is shown once and in order |
| Inventory (`services.py`) | Docker client, last counters, rates | collect, rates | a daemon that comes and goes; two sources, one of them rounded, that take turns; containers that restart or are replaced under their name | no rate says more than was moved |
| Collectors (`collector.py`) | last counters | read GPUs and processes, rates | values a driver does not report; counters that start again | memory is added up from the right processes, no number made up |
| Page: speech, listening, player, panels | speech queue, recorder, player | enqueue, drain, stop, listen, play | callbacks of media elements, generations | one voice at a time, interruptions stick |
| Notebook Lens (`Tools/notebook_lens.py`), a tool of Open WebUI | the notebook in hand, a kernel on a Jupyter server, run history, copies | find, run, list | a kernel that raises, hangs or prints late; replies and outputs on one socket; time limits and Stop | a cell shows its own outputs, a good run ran everything, the kernel is torn down |
| Lens (`Tools/data_lens.py`), a tool of Open WebUI | cache of responses shared by calls; the filter and carousel of a panel | open page, chart, search | calls that overlap on one cache; panels made once and filtered later | nothing shown is too old; what a panel offers is there, but for chips that are known to be in vain; facets count what they leave |
| Diagrams (`Tools/diagram_design.py`), a tool of Open WebUI | skill files and their cache, saved diagrams; what the viewer shows | guide, reference, render; zoom and pan | a checkout that appears meanwhile, two renders in one second, fingers that come and go | a listed type is found, what is saved is what was written, the view stays inside |
| Lip-sync server, avatar exporter, dashboard charts, deployment, notebooks | little or none | | | |

## Modules

| Module | Stands for |
|---|---|
| `AvatarJobs` | what the maker promises callers: three counters and the accepted names |
| `AvatarMaker` | the maker itself; `KeepsPromise` maps it to `AvatarJobs` |
| `SparkStore` | the two tiers under the sampler loop and restarts; with the three below, all that Sparkboard's sampler threads do |
| `Inventory` | containers by socket or command line, either in any pass, and rates between two passes |
| `ContainerStats` | processor, memory and ports of one row |
| `Collectors` | what one pass makes of GPUs, their processes and host counters |
| `AuthGate` | log follower, bans, nginx and log rotation as environment |
| `Chats` | the chats service: files, lock, requests as records |
| `ChatPage` | the page, composed with `Chats` (EXTENDS it; every service step leaves the page alone) |
| `Lyrics` | lyrics files, those who look them up and the one that listens |
| `MatchLines` | the choice of slips, a dynamic program, beside what it should find |
| `SongSearch` | what each kind of search takes of what it was answered |
| `MusicTokens` | tokens, the threads that forget them, and what is warmed for them |
| `AvatarPage` | `ChatPage` with the four above |
| `SongCache` | downloads, single flight, two slots, concurrent prunes; with `Home` beside it |
| `Home` | the home service, Home Assistant as environment, and the panel |
| `PromptFeed` | the proxy's classifier calls, the ring of labels and the dashboard that polls it |
| `PromptSampling` | which text of a request is shown to the classifier, and for which share of them |
| `Dashboard` | sampler thread, unlocked `STATE`, one connection of `/api/stream` and its dashboard; with the two above |
| `NotebookRun` | one call of `run_notebook()`, with the kernel and the network as environment |
| `NotebookNames` | finding a notebook by name in the two calls, and the copies that runs leave |
| `NotebookPages` | pages of a notebook in both layouts, and the carousel |
| `TinyMarkdown` | the converter of notes, line by line |
| `DataLens` | what is extracted of a page, which view it gets and what that shows; calls over the shared cache |
| `LensResults` | the results panel: its facets, filter and carousel |
| `LensChart` | which columns are charted, how, and how high the marks are |
| `DiagramTool` | the three calls over skill files, cache and saved diagrams |
| `DiagramViewer` | zooming and panning by `viewBox` |
| `Tools` | `NotebookRun` with the eight above |
| `Selection` | `[x for x in s if ...]`, `filter()` and `extend()`, as recursive functions |
| `MC_*` | TLC instances; `AvatarMaker`, `AuthGate` and `Dashboard` need none, their `.cfg` gives every constant its value |

The theorems are in `AvatarMakerProofs`, `AuthGateProofs`, `DashboardProofs`,
`AvatarPageProofs` and `ToolsProofs`, each about the module of its name, in
`SamplerThreadProofs` (`SparkStore`), `ServicesProofs` (`SongCache`), and in
`SelectionProofs`, which the others cite.

`SparkStore`, `AvatarPage`, `SongCache`, `Dashboard` and `Tools` hold several parts that
share no state. The variable `part` says which one a behaviour of `AllSpec` follows; the
variables of the others stay as they are. Each part is explored in full, as by an instance
of its own, and a property is about its part. Each of these modules extends the module of
one part, whose properties are checked under their own names; the other parts are
instances, and their assumptions are `PartsAssumption`. Some properties of a run are
conjunctions of what two or three parts promise; the table of the runs has their
conjuncts.
Components that do interact are composed: `ChatPage` with `Chats`, the two ends of
the feed and of the stream, the panel with the home service, lyrics with their
listener, `Inventory` with the thread that publishes it.

How state and actions correspond:

* **AvatarMaker.** `jobs`, `queue`, `wake` are the module's globals; a job is its
  number in order of acceptance instead of a uuid. `request` holds the one
  request between its existence check and its decision: the handler reads the
  whole upload first and never awaits afterwards, so requests do not interleave
  with each other, only with the worker. The worker's locked section is one
  action (`Take`), and each unlocked step is its own. `folder` is the loop over
  `AVATAR_DIRS`. Definitions such as `LineIsOverfull` that the model does not
  use are forms a plausible bug would give the definition after them, in this
  and the other modules: each property is known to fail under one of them.
* **SparkStore.** A sample is its second, a minute row the *set* of samples it
  was averaged over, so an average that left samples out can be told from one
  that did not. `Start` is `lifespan`, `Stop` a stop or kill at any step,
  `Sample`, `Rollup`, `Prune`, `Wake` one turn of `sampler`. Statements commit or
  fail as a whole.
* **AuthGate.** A log line is two units long, so the follower can see half of
  one. `Stat` and `Read` are separate steps, with rotation possible in between;
  `stale` says the position was measured in another file, in which case the
  first line may or may not be recognised.
* **Chats and ChatPage.** A record of `ops` is a request from the call to the
  page's continuation: `asked`, then in the service (`writing`, `removing`),
  then `answered` or `failed`, then `settled`. The lock is held from the read of
  the old file to the rename. On the page each `await` ends an action. A person
  has one folder and one lock, so one person stands for all.
* **SongCache.** `cache` is the folder ordered by modification time. A task has
  the places of `_fetch_one` and of the thread it runs; prune is split into the
  glob, the stats, and one step per file, since two threads may be in it.
* **PromptFeed.** An action is what runs between two awaits of the event loop. A
  record of `calls` is one detached `_classify()`: `task` is where it is, `model` what it
  asks, `field` whether its payload holds `chat_template_kwargs`. `forward()` starts it
  and keeps nothing, so passing on the request itself is no action. The payload is made when the task starts, before the
  semaphore, so `Arrive` makes it. `picky` is a server that refuses the field.
  `run` in a label's record tells labels of two runs of the service apart, whose
  numbers both start at 1. `page.shown` is everything `loadFeed()` ever put in
  `pending`, `page.stale` the number it had seen when the service was last restarted.
* **PromptSampling.** A turn is its role and the form of its content. `sampled` is
  history: how many requests had a prompt, and how many of them were taken.
* **Dashboard.** The sampler is a thread and the generator runs on the event
  loop, so every read or write of `STATE` is a step: `AppendPoint`,
  `PublishLatest`, `CountSample` on one side and `Notice`, `Mark`, `ReadSample`,
  `ReadPoint`, `Send` on the other. `wire` is the connection, with a `Buffer`
  beyond which the generator waits. `page.passed` remembers the last sample that
  a paused page dropped, for `CatchesUp` only.
* **Lyrics and MatchLines.** A file's lines are the number of the look-up that
  found them, and its slips the number of the lines they were made of, so slips
  beside other lines can be told. A listen holds the lines it read at its start
  across all its awaits. Songs in `Tails` have a last piece under half a second.
  `MatchLines` has the forward pass in one action, `Match`, as a function of the lines;
  in its property it is compared with every path there is.
* **SongSearch and MusicTokens.** What is asked for and what the sites answer are chosen
  together at the start, any lists of up to `MaxHits`. A video is its length and whether its title is one
  a search avoids. `remember()` has three places, since
  another thread may be between listing the expired tokens and deleting them.
* **Home.** A request is a thread with its place and locals; `areas` also remembers
  when its map was *true* in the house. A device is a level or a lock. `hand` tells
  who changed it last; `Reply` gives the panel what was read back.
* **Inventory.** A container's counter starts again when it does; `moved` is what all
  containers of its name really moved. `pass` is where `collect()` is and what it
  has read: one reading at a time by the socket, all at once by `docker stats`, which rounds.
  Either may fail in any pass, so what is remembered of one may meet what the other read;
  `exact` tells them apart.
* **ContainerStats.** `sys` and `cpu` are the kernel's counters, `pre` the reading the
  daemon remembers with what was really used since; a port entry is listed as the
  daemon lists it. `cli` is what the other parser makes of the same container.
* **Collectors.** Readings are any lists of GPUs, with -1 for `[N/A]`. A process is the GPU
  it is really on and what it really `holds` there, with what `nvidia-smi` says of that:
  whether it is `named` and `told`.
* **NotebookRun.** The call is a coroutine, and an action what it does between two
  awaits. `call` has the locals of `run_notebook()`, `execute_notebook_remote()` and
  `_execute_one_cell()`; `wire` is the WebSocket. An output is the cell that printed
  it and its number; cell 0 stands for an earlier run, whose outputs the file may
  hold. `published`, `ended` and `lost` are history for the properties: what each
  cell really published, which ones ended or raised, and whether a request to start
  or delete the kernel went unanswered.
* **NotebookPages and TinyMarkdown.** A cell is its type, the kinds of its lines and its
  outputs with the forms each comes in; a page names the outputs it shows, so one
  that is lost or shown twice can be told. Making the pages is one step (it is one
  function without awaits), then the carousel turns. In `TinyMarkdown` each step
  reads a line, and HTML is a sequence of opened, closed and whole tags.
* **NotebookNames.** A file is folder and stem; `found` is what the person was told.
* **DataLens.** A page is the list of its elements with what the extractors
  ask of each. `served` is when a server answered, which a cache entry carries on, so
  `ShownIsRecent` measures real age and not the age of the entry.
* **LensResults.** `panel` is the document that Python made, once; `filter`, `page`
  and `stage` are the script's state and the screen.
* **LensChart.** Heights are whole parts of the drawing; what is compared is their order.
* **DiagramTool.** A call's step runs to its next await. `disk` remembers when a file
  was written and whether twice in one second.
* **DiagramViewer.** One dimension, scales that are powers of two and whole steps of
  the screen, so that every quotient of the code is exact.

## Runs

| Run | Shows | Bounds |
|---|---|---|
| `maker` | the maker's invariants, that each job ends, and the refinement | 3 names, 2 folders, 2 places in line, 3 jobs; hand-copied ZIPs only for one name in one folder, which is enough for a name that is already there |
| `maker_replace` | **violated**: a job sent without Replace overwrites an avatar published between its check and its acceptance | as `maker`, 1 place in line |
| `store` | no unlogged hole, whole charts, whole recent minutes; no rate of a container, processor or network, and no port, is made up (`InventoryTellsTruly`), nor memory (`CollectorsTellTruly`) | store: 13 seconds of 2-second minutes, window 5, retentions 7 and 9: several passes, a restart in mid-minute, a stop longer than the window, both retentions reached; exploration stops at the first logged failure, past which nothing is promised. Inventory: 2 containers and 3 changes with a command line, 1 and 4 without. Collectors: up to 2 GPUs of 4 kinds (with and without UUID and memory of their own), 3 processes of which 2 are listed, named or not, told or not. ContainerStats: 2 processors over 3 ticks, memory of 2 sizes or unknown, any set of 5 port entries: a counter that starts again under an earlier reading, one mapping in two families, a range |
| `store_peaks` | **violated**: a pass takes samples out of a minute's row | the store of `store` |
| `authgate` | lines counted once, exact bans, saved bans, and that lines are counted at all | 2 addresses (one local), 4 lines, 1 disturbance, 2 failures to a ban |
| `avatar` | answers stay in their chat, saved chats stay, creation time kept; slips of their lines, tokens for their time, and what was searched for (`MusicKeepsItsWord`); the best slips there are (`MatchIsBest`) | 2 chats, 2 turns (one with 2 rounds), 2 requests at once, 1 restart. Listening: 2 songs, 2 look-ups at a time, lines that change once. 4 lines with up to 2 candidates each. 6 kinds of video, 2 to a list. 3 tokens, 2 threads |
| `chats_clear` | **violated**: a tool's late result is remembered in the new chat | 1 request, 1 turn |
| `avatar_once` | **violated**: a song that was heard to the end is heard again | the listening of `avatar` |
| `services` | one download per song, cache capped, requests end; locks stay locked, rooms are recent, the panel catches up | 3 songs of two sizes, room for 2 units, 3 tasks, 1 restart, any cache to begin with. A lamp and a lock, a thread for the poll and one for a press, 2 changes of the house |
| `dashboard` | events hold a category and the model of a request, for the share of prompts that was set and within the ceiling (`ClassifierKeepsWithin`); each is shown once and in order, and the dashboard comes to all that are new to its numbers; no sample missed, readouts never go back; they catch up | labels: 2 categories and a reply that is neither, 3 requests with or without a model, 2 polls at once, a semaphore, ring and answer of 1, 1 restart: the ring forgets, the semaphore fills, polls overlap, labels of the new run are numbered up to and beyond what the page had seen of the old one. Stream: 3 turns of the sampler (any of which may fail), table every 2nd, ring of 2, 1 message in flight, 1 lost connection, 1 restart, any pausing. Sampling: a counter of 3, rates of 0 to 3 thirds, 5 prompts, chats of up to 2 turns: more than one round |
| `tools` | the three Open WebUI tools, see below | below |
| `tools_confirm` | **violated**: what runs is not what the person was told | the names of `tools` |

The parts of `tools`:

| Part | Properties | Bounds |
|---|---|---|
| run | `RunTellsTruly`, `KernelTornDown`, `CallsEnd` | 3 cells, 2 messages in each, 1 late one: it arrives in the next cell or the one after; any step may time out, lose the connection or be cancelled |
| show | `PagesAreWhole`, in `NotebooksAreWhole` | every notebook of up to 4 cells of 7 kinds, in 16 layouts: headings of three levels in any order, text before a heading, cells with streams, displays that cannot be shown and two errors |
| markdown | `HtmlIsWhole`, in `NotebooksAreWhole` | every text of up to 4 lines of 7 kinds: each construct between any two others |
| names | `CopiesStayApart`, in `FilesStayApart`; `RunsWhatWasTold` | any notebooks of 2 names, one a part of the other, in 3 folders, 2 runs |
| lens | `ShownIsRecent`, in `PanelsTellTruly`; `OffersHold`, in `OffersAreKept` | 2 calls, 3 addresses of which one redirects, 11 pages (text parted or not, CSV of one row and more, JSON with and without objects), a cache of 2, time up to 4 with entries kept for 1 and requests of 1: entries expire, are dropped, and are overwritten by slow answers |
| filter | `FacetsTellTruly`, in `PanelsTellTruly` | up to 3 results of 13 kinds, limits of 2 and 3, chips for 2 of 3 hosts |
| chart | `ChartsTellTheOrder`, in `OffersAreKept` | up to 3 rows of 2 columns of negative, zero and positive numbers, dates and words |
| refer, draw | `ListedIsFound`, in `OffersAreKept`; `SavedStays`, in `FilesStayApart` | 3 types, one found by its alias, one by its own name and one by likeness only, and 5 names for them; 2 documents, 2 calls at a time, 2 seconds |
| view | `ViewStaysInside`, in `PanelsTellTruly` | 3 fingers on 3 places, scales 1 to 8 |

Bounds are constants of the modules (`MaxJobs`, `Horizon`, `MaxLines`,
`MaxDisturb`, `MaxOps`, `MaxTurns`, `MaxCrashes`, `MaxTasks`, `MaxRestarts`,
`MaxRequests`, `MaxTicks`, `MaxDrops`, `MaxMessages`, `MaxLate`, `MaxFinds`,
`MaxVersion`, `MaxTokens`, `MaxNow`, `MaxChanges`, `MaxEvents`, `MaxBytes`,
`MaxList`, `MaxRuns`, `MaxSecond`) and appear only in guards and initial
states. They are small because each hazard needs at most two or
three actors: two requests and the worker, one restart and one pass, two tabs,
two pruning threads, two calls over one cache. Deadlock is checked in `maker`,
`store`, `authgate` and `dashboard`. The other passing runs end when requests, tasks,
tokens or time are used up or a call is over, and the violation runs need no such check.

In `MC_Avatar` chats are symmetric: `newId()` is random, and the one temporal
property, `CreatedKept`, is about single steps. The other instances use no symmetry.

### What the violated properties say

* `NeverReplacesUnasked`: `avatar/README.md:433` says an existing name is refused
  unless Replace is ticked. `create()` looks for the ZIP before it takes the lock
  (line 263); a job of the same name can publish and end before the decision
  (275 to 286).
* `PassesKeepSamples`: `store.py:9-11` calls a pass idempotent. It starts at
  `now - 600`, which is seldom on a minute boundary, and replaces that minute's
  row by one over its later samples. `RecentMinutesWhole`, which holds, says that
  every minute wholly inside the window is right.
* `ClearForgets`: the comment at `avatar.html:3129` says clearing clears what the
  model remembers; `ask()` appends a tool's result after its await without
  looking at the generation. `AnswersStayInTheirChat`, which holds, says that
  nothing but tool results can do this.
* `RunsWhatWasTold`: the docstring at `Tools/notebook_lens.py:1838-1841` has the tool
  called once to look the notebook up and "tell the user what you're about to run",
  and again when they agree. The first answer (1889) gives the name without its path for the second call,
  which looks it up from nothing: `executed/weather` was found, `weather` in the
  root runs.
* `HeardOnce`: `avatar/README.md:486` says a song is only heard once. `listen()` sets
  "done" in the piece that reaches the end; when what is left for it is under half a
  second the loop is left before that (`music.py:655`), and each request for the
  lyrics starts again. Lyrics that are written over by a look-up (718) or read
  half-written are heard again too.

More is known and has no run:

* The comment at `proxy.py:260` to `263` says one request is wasted before the field
  is dropped; the payload is made before the semaphore (264) and repeated only while
  the flag is still set (275), so every call queued or under way when the first was
  refused loses its label (`Fails` in `PromptFeed`).
* `_extract_prompt()` is "the last user turn" (`proxy.py:185`); when that has only
  pictures, an earlier one is taken, and with it a question that was answered already.
* `proxy.py:17` and `README.md:117` of Sparkboard say that a category label and a token count are what
  leaves the proxy. An event also holds the model that was asked (303), and where
  `classify_model` is not set that is the text that the client put in its request as the
  model, whatever it is (214 to 218). `OnlyWhatIsNamed`, a part of `ClassifierKeepsWithin`, therefore only
  says that an event's model is that of a request that was labelled.
* `collector.py:12` to `14` says that a missing sensor "never masquerades as a real reading
  of 0". A GPU that reports no memory in use gets the sum of what its processes hold (302),
  and when all of these say `[N/A]` that sum is 0 and is shown. Processes beyond 20 are not
  listed (266) and not added up. `CollectorsTellTruly` asks for the exact sum where all of it is told.
* `server.py:119` to `121` has the process table carried forward. With an interval over 6.6 s
  `HOST_PROC_EVERY` is 1 (69), `tick % 1` is never 1 (117), and no table is ever read: `TableIsHeld`
  holds for periods of 2 and more only, and `SamplesAreWhole` says so.
* A restart of Sparkboard numbers labels from 1, and a dashboard that stays open goes on
  asking for those after the last number it saw (`app.js:1078`): it never shows the first ones of the new
  run. `FeedCatchesUp` leaves these out.
* `json.loads(raw).get` at `proxy.py:407` raises for a body that is JSON and no object; `_maybe_classify()`
  returns early for the same body (363). `forward()` keeps no state and is not modelled.
* Some chips of a panel are in vain (`data_lens.py:2725`): "Chart it" under a table view without
  tables, a CSV of one row and JSON without objects; "Table" (2476) under a chart of JSON. `OffersHold`
  names them and holds for the others.
* A type that the skill lists under a name with one of five endings, such as `-map`, is found only by an
  alias or by likeness, since the ending is taken off what was asked (`diagram_design.py:626`); `ListedIsFound` is
  about the others (`KeepsItsName`).
* `summary()` is "aggregated over the ring" (`proxy.py:149`) and counts every label
  since the start.
* `docker ps` prints neighbouring ports as one range, which `parse_ports()` leaves out
  (`services.py:145` to `161`); `RowTellsTruly` only has the two ways agree without ranges.
* `execute_notebook_remote()` "always tears the kernel down", but not one whose start
  ran out of time on this side only: `KernelTornDown` excepts requests that were not
  answered.
* A cell's outputs are emptied when its turn comes (`notebook_lens.py:1569`), so a run
  that stops early leaves what the file held in the cells it did not reach, although
  `SAVE_EXECUTED_COPY` speaks of fresh outputs (1640).
* `services.py:444` to `446` has the API "tried on every pass rather than latched". That is so of
  a daemon that does not answer; a socket that is missing when it is first looked for is latched
  (199): `Inventory` keeps `client = "failed"`, and the command line is used from then on.
* Rates take the time after a pass, while counters are read during it, for up to 25 s
  (`services.py:608`); the model has no clock within a pass.
* A part of a notebook's name stops being enough once copies of two runs are listed
  (`notebook_lens.py:250`); `CopiesStayApart` is about whole names and paths.
* Two diagrams of one title in one second share a file (`diagram_design.py:772`), which `SavedStays` of
  `DiagramTool` excepts.

## Fairness

* Maker: `WF(Worker)`. The worker is a thread in a loop and the killer timer ends
  an export that hangs. Requests are not fair: nobody has to ask.
* Login bans: `WF(Follow)`, `WF(Save)` (a thread in a loop, and whoever holds the
  lock saves), `SF` of counting a failure, since unban requests may take the lock
  again and again but a Python lock is handed over.
* Songs: weak fairness of each task's steps: downloads and ffmpeg have timeouts,
  and the pool and event loop run. The semaphore needs no more, since tasks are
  finite.
* Home: weak fairness of each thread of the server (calls to Home Assistant have
  timeouts) and of the panel's timer; strong fairness of a poll's reading of the
  states, which may fail again and again but not for ever. Presses are not fair.
* Feed: weak fairness of the page's timer; strong fairness of a poll's answer and receipt, since polls may be lost
  but not all of them. Nothing is assumed of the classifier.
* Live: weak fairness of the thread, the generator, the answer to `/api/now`,
  messages, and reconnection, which `EventSource` does by itself. That holds for a
  connection that breaks; when a proxy in between answers 502 during a restart, a
  browser gives up for good and so does the dashboard.
* Notebook: weak fairness of the call's own steps and of the time limit on a cell.
  HTTP requests to the Jupyter server are answered or end by the client's own
  timeout. Nothing is assumed of the kernel or its server.
* The other modules have safety properties only and no fairness.

## Proved

### `AvatarMakerProofs`

For any set of names, any number of folders, places and jobs,
from the constants' assumptions in `AvatarMaker` only:

| Theorem | Says |
|---|---|
| `Invariance` | `Spec => []IInv` |
| `TypeCorrect` | `Spec => []TypeOK` |
| `NamesAreExclusive` | `Spec => []OneJobPerName` |
| `NoLostWakeup` | `Spec => []WakeMatchesQueue` |
| `DoneIsPublished` | `Spec => []DoneMeansPublished` |
| `Implements` | `Spec => KeepsPromise`: every step is a step of `AvatarJobs` or a stutter |

None of the properties is inductive alone. `IInv` adds how the worker's place
determines the states of the jobs: jobs up to the current one have ended but for
the current, jobs after it are queued, the queue is exactly the jobs after it in
order, and while publishing the folders before `folder` hold the current job's
ZIP. There is a lemma per action; `PrunedKeeps` and `SetStateKeeps` carry what
pruning and a change of state leave alone. The refinement uses the invariant to
show that a request is accepted only when the abstract line has room and the
name is not active.

### `ServicesProofs`

For any songs, sizes, slots, limit of the cache and number of tasks, and for any devices,
threads and times, from `SongCacheAssumption` and `HomeAssumption`:

| Theorem | Says |
|---|---|
| `Invariance` | `Spec => []IInv` |
| `SingleFlight` | `Spec => []OneDownloadPerSong` |
| `SlotsHold` | `Spec => []AtMostSlots`, the part of `TypeOK` that says something |
| `CacheInvariance` | `Spec => []CacheIInv` |
| `CacheStaysCapped` | `Spec => []CacheCapped` |
| `SongTypesHold` | `Spec => []TypeOK` |
| `HouseInvariance` | `AllSpec => [](part = "house" => HouseIInv)` |
| `HomeIsTrustworthy` | `AllSpec => []HomeKeepsItsWord` |

* Downloads: `IInv` is the first two properties with the types of `tasks` and `fetching`.
  Every step but `Ask` and `Restart` moves one task (`Moves`); the lemmas on moves say what
  a move keeps, and each step is shown to be one.
* The cache: songs that no prune has seen to may be over the limit, so `CacheIInv` says for
  every `prune()` that has a list what it still has to do (`OnItsWay`): the files that it
  has passed fit in, but for those that came after its list. Of two prunes in two
  threads, one has listed all that the other still has to see to (`PrunesAgree`), so a
  file that one of them removes is in the way of neither. `SizeOf` is a sum over a finite set;
  `SizesAdd` and its relatives get what is needed of it from a recursive function over
  the places of a sequence.
* Home: a value that a request has in hand is one its device may be set to, so locks are
  locked or left alone (`HouseRequests`, `LocksStayLocked`); the map was at most one call
  old when it was read (`MapWasRecent`), and a rendering starts with one that is at most
  `Keep` old.

### `SamplerThreadProofs`

For any horizon and any minute, window, retentions and ranges in the order of
`TimesAssumption`; any containers, rounding and changes (`InventoryAssumption`); any
number of processors, sizes of memory and ports (`ContainerStatsAssumption`); and any GPUs
and processes whose readings are numbers or missing (`CollectorsAssumption`):

| Theorem | Says |
|---|---|
| `Invariance` | `Spec => []IInv` |
| `NoUnloggedHole` | `Spec => []HolesAreLogged` |
| `ChartsAreWhole` | `Spec => []HistoryIsWhole` |
| `RecentRowsAreWhole` | `Spec => []RecentMinutesWhole` |
| `DockerInvariance`, `RatesTellTheTruth` | `AllSpec => []RatesTellTruly` |
| `RowInvariance` | `AllSpec => [](part = "stats" => RowIInv)` |
| `InventoryIsTrue` | `AllSpec => []InventoryTellsTruly`: the last two together |
| `ReadInvariance`, `CollectorsAreTrue` | `AllSpec => []CollectorsTellTruly` |

The store's `IInv` has four parts beside the types. `RawIsKept`: a sample within the raw
retention is there. `PassIsRecent`: how old the last pass can be at each place of
the sampler's turn, at most `MaintEvery` and two turns; by the assumption that is
less than the window, so a pass never starts after what the last one left.
`PassedAreRolled`: what was there at the last pass has a row or is too old for
one, and the raw tier has let go of nothing else. `RecentAreWhole`: rows of minutes
inside the last window are of all their samples. The last three hold until a pass
fails and logs it. `MinuteOf` is a division; its two lemmas carry all arithmetic of minutes.

* Inventory: since a reading, a counter has gained no more than was moved, whatever was
  started again (`PrevHolds`, `ReadHolds`); so a second reading exceeds the first by no more
  (`ReadFollows`). A reading by `docker stats` is off by at most half a unit, to either side
  (`PrintedIsNear`), so two are off by less than one; readings of the two ways may follow each
  other, and `exact` in the invariant says which of them were rounded.
* Rows: a container worked no longer than the host, nor since its earlier reading. The
  percentage is a quotient, and a lemma on parts of a whole bounds it by the processors'
  number; what is listed of ports is what is published, once for both families.
* Collectors: what a counter gained since the last reading was moved since (`LastHolds`). The
  processes that are added up for a GPU are on it: those that name it, since no two GPUs
  have one UUID, or all if it is alone. So the sum (`AddedUp` is `sum()`) is, place by place
  of the list, at most what they hold, and equal to it where each says what it holds.

### `AuthGateProofs`

For any addresses, numbers of lines and disturbances, and lengths of window and bans; by
`BanAssumption` none of these is 0:

| Theorem | Says |
|---|---|
| `Invariance` | `Spec => []IInv` |
| `LinesCountOnce` | `Spec => []CountedOnce` |
| `SavedBansMatch` | `Spec => []DiskMatches`, an invariant without strengthening |
| `BanInvariance` | `Spec => []BanIInv` |
| `BansAreExact` | `Spec => BanExactly`, an action property |

A line counts once because of three facts that hold together: the file is always the
tail of what was written (`FileIsTail`), the lines read but not counted are new and in
order (`PendingIsNew`), and what the follower may still read comes after all it has met
(`AheadIsNew`): past its position, or anywhere in a file that came since. `Phases` says
when the position is known and within the file.

`bans` is decided by a list of times that is filtered at each failure. `FailuresStand` says
of each address that the times stand for different lines, and that no line within the
window is left out, which makes the length of the filtered list the number of lines in
the window (`RecentCounts`). `BanExactly` compares that number with the ban.

### `DashboardProofs`

For any period of the process table (1 included, of which nothing is said), ring, buffer, samples, losses and restarts; any
categories, models, polls, ring and ceiling of the feed; any share of the prompts:

| Theorem | Says |
|---|---|
| `Invariance` | `Spec => []IInv` |
| `SamplesStayWhole` | `Spec => []SamplesAreWhole` |
| `ReadoutsGoForward` | `Spec => NeverGoesBack`, an action property |
| `FeedInvariance` | `AllSpec => []FeedIInv` |
| `LabelsStayInOrder` | `AllSpec => []ShownInOrder` |
| `PickInvariance` | `AllSpec => [](part = "prompts" => PickIInv)` |
| `ClassifierStaysWithin` | `AllSpec => []ClassifierKeepsWithin`, of which `FeedIsWithin` and `PromptsAreChosen` are the parts |

`Published` says how far the sample in hand is in `STATE` at each place of the thread,
`Noticed` what the generator can have read since it saw a number, so that reading the
number first and the sample later can show a newer sample but never miss one.
`TableIsDue` counts the table's age. `InOrder` follows samples back from the page over
the connection and the generator to the thread: they only get newer.

* Feed: what is in the ring, and what any poll has read from it, rises in number and is of
  the run that is on (`OfThisRun`); what is shown is of this run or an earlier one and
  nothing of it is beyond the number seen. That is what makes an answer that comes late,
  twice or after a restart harmless. `Feed!After` is a list comprehension (`AfterRises`).
  The model of an event is that of a call whose label was kept (`FeedIsNamed`), and a call
  keeps its model (`KeptStays`).
* Prompts: `Rounds` counts the requests in rounds of `Period` and a rest, and says how many
  of each were taken; division comes in only where the share is read off.

### `AvatarPageProofs`

For the page together with the service, any chats, turns, rounds, requests and restarts;
any songs, look-ups and pieces; any threads, sources and lifetimes; any videos, stations,
episodes and lengths:

| Theorem | Says |
|---|---|
| `Invariance` | `Spec => []IInv` |
| `TypeCorrect` | `Spec => []TypeOK` |
| `SavedChatsStay` | `Spec => []SavedStays` |
| `AnswersAreInTheirChat` | `Spec => []AnswersStayInTheirChat` |
| `CreationIsKept` | `Spec => CreatedKept`, an action property |
| `SlipsStayWithTheirLines` | `AllSpec => []SlipsTellTruly` |
| `TokenInvariance`, `ItemsPlay` | `AllSpec => []ItemsPlayTheirTime` |
| `SearchInvariance`, `SearchesAreRight` | `AllSpec => []SearchKeepsItsWord` |
| `MusicIsTrue` | `AllSpec => []MusicKeepsItsWord`: the last three together |

`Requests` says of every request what it may carry (`Sound`) and what the holder of the
lock knows of the folder (`Knows`: the file it read is still as it was, and what it has
yet to remove is not to be kept), and that at most one request is under the lock. `Said`
ties messages to the chat of their turn, in the history, in files and in requests.
`CurrentTurns` is why an answer lands where it belongs: a turn that was not interrupted
is one of the chat that is shown.

* Lyrics: the slips of a file are none or of its lines, and one song has the ears. A
  listen writes its own lines with its slips, which is why other writers do no harm.
* Tokens: a token that is no longer kept has expired, what a thread is to forget
  has too, and a new number is on nobody's list.
* Searches: an answer is made in one step, so what is to be shown is what the choices
  return: `FirstSong` finds a song in what was selected whenever one was hit, `Once` keeps
  the first of each name, and the best episode's place is where its list begins.

### `ToolsProofs`

For any numbers of cells, of messages in each and of late ones; any folders and names,
whichever are parts of others; any pages, calls, sizes of the cache and times; any
results, limits and hosts; any documents, titles and calls; any fingers on the viewer; any
notebook of cells whose outputs nbformat knows, in any layout; and any lines of a note:

| Theorem | Says |
|---|---|
| `Invariance` | `Spec => []IInv` |
| `RunsTellTruly` | `Spec => []RunTellsTruly` |
| `KernelsAreTornDown` | `Spec => []KernelTornDown` |
| `NamesInvariance`, `NamesFindTheirOwn` | `AllSpec => []CopiesStayApart` |
| `DrawInvariance`, `DrawingsStay` | `AllSpec => []SavedStays` |
| `FilesAreApart` | `AllSpec => []FilesStayApart`: the last two together |
| `LensInvariance`, `PagesAreRecent` | `AllSpec => []ShownIsRecent` |
| `FilterInvariance`, `FacetsCount` | `AllSpec => []FacetsTellTruly` |
| `ViewInvariance`, `ViewsStayInside` | `AllSpec => []ViewStaysInside` |
| `PanelsAreTrue` | `AllSpec => []PanelsTellTruly`: the last three together |
| `MarkInvariance`, `NotesAreWhole` | `AllSpec => []HtmlIsWhole` |
| `PagesInvariance`, `PagesAreComplete` | `AllSpec => []PagesAreWhole` |
| `NotebooksAreComplete` | `AllSpec => []NotebooksAreWhole`: the last two together |

What a cell shows lags behind what it published by the messages that are still on the
wire, some of which clear what came before. `Brings` says that these messages, applied
one after the other, make the one out of the other: `s[k]` is what the cell shows after
the first `k` of them. A message that arrives extends `s`, one that is read cuts off its first
element. After `idle` only what threads of earlier cells print is left. `BetweenCells`
and `InACell` put that together with what has been sent, `Recorded` with what the
history file is told, and `KernelKnown` has no place of the call at which a kernel that
lives could be forgotten.

* NotebookNames: the number in a copy's name is never 0, so no whole name is a copy's.
* DiagramTool: a path ends in the second it was written, so a file that is written again
  says so (`Sound`).
* DataLens: an entry of the cache was served at most one request before it was put there
  (`CacheIsKnown`), by which of two overlapping calls it may be; each call knows since
  when it asks (`Timely`).
* LensResults: a chip counts the items that its facet leaves (`Document`), what does not
  match is hidden and the rest counted (`Screened`), and the stage has an item of the
  document (`Staged`). Titles, snippets and hosts may be anything; that an answer is a
  list is all that is assumed of it.
* DiagramViewer: every way to a view ends in `Applied`, which clips its left end
  (`ClippedInside`); fingers stand apart, so that no pinch divides by 0.
* TinyMarkdown: each part of the HTML fits what is open before it (`Whole`), and what is
  written followed by what is kept for a paragraph tells the lines that were read, each once
  and in order (`Tells`). What a construct writes is put together of pieces that fit one
  after another: the rest of a paragraph, the end of a list, the start of one, the element.
* NotebookPages: `Owed` says which outputs of a cell must be seen. The pages of one cell show
  what it owes (`OutputPagesShow`): streams together, the displays that have a form, the last
  error, of which no two share an output. Put after what shows the cells before it, they
  show one cell more (`NextCellShown`), which is all there is to the layout by cells. In
  the layout by sections the blocks of the finished pages and of the page in hand are that
  list (`AccOk`): `flush()` leaves out only pages without a block (`FlushShows`), and the last
  page is flushed too. The stack holds the headings that no later one of the same or a higher
  rank has ended (`Stacked`), so the last of those above a new heading is the nearest one
  (`NearestIsLast`), which the pill names.

### `SelectionProofs`

List comprehensions with a condition, and `filter()`, are everywhere in this code, and what
they return decides most of the properties above. `Selected` writes them as a recursive
function of the places of a list. `FromZeroOn` is induction over the naturals for a *set*
of them (it follows from every set of naturals having a least element), which needs no
predicate as a parameter; with it `SelectedSelects` says that the entries selected are
those of the list that are in the set, in their order, by a rising function from the
places of the one to those of the other, and `SelectedRange` which values that makes.
`Joined` writes `extend()` in a loop; `JoinedGoes` says that it adds the lists one by one,
`JoinedAppends` that a list more adds its entries. `Recursion` gives the function that
such a definition takes by `CHOOSE`: there is one, whatever its step, whose values stay
in a set that the step does not leave.

In all modules a theorem about `AllSpec` is about whichever part a behaviour follows.

## Only model-checked, and why

* Liveness (`JobsEnd`, `LinesCounted`, `FetchesEnd`,
  `FeedCatchesUp`, `CatchesUp`, `PanelCatchesUp`, `CallsEnd`): temporal reasoning under
  fairness is out of the prover's reach here.
* `MatchIsBest`: that a dynamic program finds the least cost of all paths, and that a median
  of runs is near all of them, are inductions over what `Best` computes from folds.
* `OffersAreKept`: what a view finds of a page, a chart's series and the sum of a pie's slices
  are folds and a sort over lists of any length, about which the library has no fact without
  an operator as a parameter; `ListedIsFound`, a part of it, rests on the tables of aliases
  and endings, which are constants of the instance.

No module uses a RECURSIVE operator.

## Not modelled

* Formats, drawing, markup and styles, and anything that is one request to an external
  program: LAM, Blender, yt-dlp, ffmpeg, Speaches, Kokoro, LRCLIB, SearXNG, GitHub and Home
  Assistant are outcomes.
* The page's speech queue, recorder, player, camera and lip sync, and the turn state
  it shows: callbacks of media elements whose order belongs to the browser.
* The "Save my chats" box is taken to be ticked, and turns to be typed.
* Two page tabs of one person are requests of one page here: the service cannot
  tell them apart.
* The host's clock going back, and a suspended host (`MaxLoop`).
* A use of the store that shutdown has closed: it only raises.
* `RAW_RETENTION_HOURS` under a day (`TimesAssumption`).
* The dashboard's charts, `/api/live` and ranges; a boot one of whose requests fails,
  which leaves the dashboard without a stream until it is reloaded.
* Music: the bytes of a stream, the bands of `/levels`, `/clip`, and the words that `spots()`
  compares.
* Home: domains but lights and locks, and a slider while it is dragged.
* Passing a request on to the language model (`forward()`), which keeps no state.
* Inventory and collectors: listening sockets, the test for unified memory, temperatures,
  disks, tags, names of processes.
* Notebook Lens: `clear_output(wait=True)` (which the tool ignores, and so does the
  model), the history file but for what a run records in it, and inline markup of notes.
* Lens: the guard on addresses, sizes of responses, PDF and Markdown conversion, and the
  answers of the search engine. The time limit of httpx is per operation
  and redirect; here it is that of a request, so an answer that trickles is left out. So is
  the second that a browser waits for scripts after a page was served.
* Diagrams: the checks of a document (passed or not), and two fingers on one pixel, where a pinch
  divides by their distance.
* Notebooks: the entries of the page menu in the layout by cells, which the buttons reach too.
* Charts: bars that lie down, and columns that a call names.
* The lip-sync server (one request at a time, no other state), the avatar exporter (a
  batch script, whose outcome the maker has), deployment files, the example notebooks
  and the generator of the repository's diagrams.

## Plan

1. Done: the maker, songs, lyrics, searches and tokens, chats and page, ban service, home
   service with its panel, the store, inventory and collectors, live stream and prompt
   feed, and the three tools.
2. Done: theorems about every safety property that a run checks but two, `MatchIsBest` and
   `OffersAreKept`. Left: the views of `DataLens` and the series of `LensChart` with
   `Selected` and `Joined` in place of the folds; then the paths of `MatchLines`, by
   induction over the lines.
3. `Speech`: queue, drain, generations and the page's turn state, composed with
   `ChatPage`'s turns.
