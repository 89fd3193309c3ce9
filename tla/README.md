# Verification of XQF

XQF is a GTK program that lists the servers of multiplayer games. It asks
master servers for lists, asks each server for its state by way of the external
program `qstat`, looks up names through a helper process, filters and sorts
what it got, and starts the games. This directory holds a TLA+ model of its
control: which callbacks change what, in which order, and what may come
between two of them.

Paths below are relative to `src/src/` unless they say more. A definition keeps
the name of the C function where it models one; `PROJECT.json` gives the lines of
each.

## 1. The system

XQF is one process with one GTK main loop and no threads, and yet it is a
concurrent program:

- **callbacks of the main loop** (a `qstat` pipe is readable, the DNS helper has
  answered, a timer is due, the user has clicked) run to their end, one at a
  time, in any order;
- **modal dialogs run main loops of their own**, nested inside a callback that has
  not returned; all the other callbacks go on meanwhile;
- **the SIGCHLD handler** (`launch.c`) runs between any two instructions;
- **the DNS helper** (`dns.c`) is a second process with a queue and up to
  `DNS_MAX_CHILDREN` forked workers, connected by pipes;
- **`qstat` and the games** are processes that end when they like.

| Component | State it keeps | Operations | Talks to |
|---|---|---|---|
| Job engine (`stat.c`) | `struct stat_job`: masters, names, servers and hosts to do, connections, counts | `stat_start`, `stat_next`, the callbacks of `qstat` and DNS, `stat_stop`, `stat_close` | DNS helper, `qstat`, the tables, the window by handlers |
| DNS helper (`dns.c`) | queue, worker slots, `dns_workers_num` | look up, `/RESET`, fork, read, reap, alarm | the job engine, by lines in pipes |
| Line framing (`dns.c`) | `struct dns_stream`: buffer and position | `dns_input_callback` | both sides of the helper |
| Filters and the list (`filter.c`, `srv-list.c`, `xqf.c`) | the chosen filters, `flt_mask`, `filters` and `flt_last` of each server, the rows | rebuild, redraw one row, choose, edit, switch | the job engine, by handlers and by a timer of one second |
| Job slot and dialogs (`xqf.c`, `redial.c`, `dialogs.c`) | `stat_process`, `cur_server`, nested loops, windows, the countdown | start a list, launch, redial, stop, answer | the job engine, client launch |
| Client launch (`launch.c`) | the list of running clients, their pids and pipes | launch, attach, detach, SIGCHLD, the error dialog | games |
| Servers and hosts (`server.c`, `host.c`) | two hash tables with reference counts | add, ref, unref, change of port | every list of every other component |
| Masters and sources (`source.c`, `xqf-ui.c`) | masters, groups, the rows of the tree, favourites, four files | add, rename, clear, delete, update, save, load | the window, the tables, the configuration |
| Filter dialog (`filter.c`, `country-filter.c`) | the array of server filters and its backup, widgets and their one changed flag, the popup of countries | new, rename, delete, edit, OK, Cancel, save, load | the filters, the configuration |
| Player patterns (`flt-player.c`) | a list of patterns in groups, its working copy, a file | edit, compare, OK, Cancel, Add Player, load | the filters |
| Configuration (`config.c`, `rc.c`) | files of sections and keys, read when first asked for | get, set, delete, sync, take over the older file | everything |
| Preferences (`pref.c`) | a variable, a key and a widget per setting, custom arguments | open, edit, OK, Cancel, load | the configuration, the job slot |
| Scripts (`scripts.c`) | a cache of what the scripts say of themselves, options in memory and in the configuration | load, install, edit, OK, restart | the configuration, preferences |
| Remote console (`rcon.c`) | a socket, one challenge, one buffer and the size of the last message | send, receive, wait, open, close | game servers, by datagrams |

`PROJECT.json` lists the rest of the program too, with the reason why it is left
out: parsers token by token, drawing, widgets, the game table, map scanners.

### What makes them correct, and what is hard

- *Job engine*: each master is reported once; phases do not run over each other;
  the limits on `qstat` programs are kept; every job ends. Hard: the same
  completion function is called from four places, one of them inside the loop that
  starts the programs; answers of the helper to a job that was stopped arrive
  during the next one.
- *DNS helper*: each request is answered at most once, none after a reset was
  read; the count of workers is right; nothing waits beside a free slot. Hard:
  reset, fork, end of output and alarm all change slots.
- *Framing*: each newline makes one call of the parser, with the whole line, and the callback comes back to the
  main loop. Hard: one line may come in several reads, or be longer than the buffer.
- *Filters*: the rows are the servers that pass. Hard: verdicts are cached, with
  one date for three filters, while a job changes servers and a dialog
  changes filters.
- *Job slot*: one job at a time; nested dialogs and their data live and die
  together. Hard: the slot is tested and taken in different functions, and the
  destruction of any dialog ends the innermost loop.
- *Client launch*: a running game is known; a pid is killed only while it is that of
  the game. Hard: the signal handler, and pids that are used again.
- *Tables*: no list holds a freed server. Hard: some sixty places take and drop
  references by hand.
- *Dialogs* (filters, patterns, scripts, preferences): what was edited is what is used, what is
  used is what the next start loads, and Cancel leaves what was. Hard: one flag says
  "changed" for all the widgets and outlives the dialog; working copies share their elements
  with the originals; variable, key and widget of a setting are tied together by hand,
  a few hundred times.
- *Configuration*: what is written is what is read, a crash in a write loses no file that
  was complete, settings of the older file arrive. Hard: sections in parts, names
  that differ in case, files of the system behind those of the user.
- *Sources*: the tree and the selection name no master that was freed; favourites are on disk
  at once, the rest is what the next start loads. Hard: masters with equal addresses,
  built-in changes applied at each start, the groups that come and go with their masters.
- *Remote console*: a command carries the challenge of its own server, what is shown is one
  message. Hard: datagrams that come late, twice, for a window that was closed, or are too short.

The hazards, each at its line and with the properties that watch it, are in
`PROJECT.json`.

## 2. The modules

```
Resolver            what the rest of XQF sees of the DNS helper
  ^  implemented by DnsMaster   (PROPERTY IsResolver)
  |                   +- DnsProofs              TLAPS: the slots, Resolver, the lines, and MCDns
  |  extended by    StatJob     the job engine and its resolver, composed
                      |  implements UpdateJob   (PROPERTY KeepsPromise)
                      +- StatJobProofs          TLAPS: the books, and UpdateJob
DnsStream           the lines of the pipes between the two
FilterCache         verdicts, switches, rows
JobSlot             stat_process, dialogs, redial; jobs of StatJob, coarser
Launch              clients, SIGCHLD, error dialogs
MCJobs              JobSlot and Launch, side by side
  +- JobsProofs                                 TLAPS: the clients and the slot
ServerTable         servers, hosts, references of every list
  +- ServerListProofs                           TLAPS: the references; verdicts and rows of FilterCache
FilterDialog        the array of filters, the page, the countries, the menu
  +- FilterDialogProofs                         TLAPS: filters, page and popup
PlayerPatterns      the list of patterns, its copy and its file
  +- PatternsProofs                             TLAPS: patterns and lists
Scripts             options of scripts
Preferences         settings, widgets, custom arguments
Sources             masters, the tree, favourites
  +- SavedStateProofs                           TLAPS: settings, pages and arguments of Preferences; masters, rows and files of Sources
Config              files of settings, and the older file
Rcon                the remote console
MCDialogs           the seven from FilterDialog to Rcon, side by side
  +- DialogsProofs                              TLAPS: scripts, filters, patterns, preferences, sources, console
```

`MC*.tla` give constants to the modules. Three of them hold several machines: `MCDns`
(DnsMaster and DnsStream), `MCJobs` (JobSlot and Launch) and `MCDialogs` (the seven from FilterDialog to Rcon).
In those a variable `part` is chosen at the start and says which machine runs, the others stay
where they are: these are machines that do not share state, put in one run, and not a
composition. A property `P` of a machine is there as `part = "..." => P`, as an action
property that stuttering keeps, or (`SlotsCounted`, `ChallengeOurs`) as itself, since it holds of
a machine at rest too. Compositions proper are StatJob (the engine with its resolver), JobSlot
(jobs, dialogs and timers), ServerTable (every list with the tables).

In every module a definition called a *mutant* in its comment is a plausible bug; it is not
used by the specification. Replacing the definition that follows it must break the property
that `PROJECT.json` names.

### StatJob (stat.c), with Resolver and UpdateJob

`job` is `struct stat_job`. `cons` is split into `mcons`, the masters that a
program runs for, and `scon`, the program that queries the servers. `callback` is
`dns_helper.resolved`. `located` are masters with a host or a URL, `listing` is what
they listed, `linked` the names with `us->s`.

A step is one callback of the main loop with everything it calls: the end of a
program (`MasterOutput`, `ServersOutput`), an answer (`MasterResolved`,
`NameResolved`, `HostResolved`, or `ReplyDropped` where nothing is set to receive
it), the user (`StartJob`, `StopJob`), or a step of the helper. `UpdateMasters` is
`stat_update_masters`: its loop with the two limits, the starts that fail (they
report the master from inside the loop) and what remains. `StatNext...` is
`stat_next`, which moves to the next phase with something left.

`Resolver` is the helper as a bag of requests per *epoch*; `/RESET` lines begin a new
epoch. The answers carry no epoch in the code; in the model they do as history, and
`job.stale` records that an answer of an earlier epoch was counted as one of this job.
Other history: `times` (reports per master), `given`, `lostQ2`, `stray`.

`UpdateJob` is the promise to the handlers: each master is reported at most
once, and the close handlers are told "not killed" only if all were.

### DnsMaster and DnsStream (dns.c)

`DnsMaster` has the loop of the helper by its program counter (`pc`): move the
queue, resolve a line, `select`, drain the ready workers, read the line. A slot goes through
`lookup, found, calm, printed, exited/quiet, eof`, which are the points of
`worker_resolve` between which the alarm or the reset can come. The interleaving of the
helper, its workers and XQF is free. `ResolverView` maps it to `Resolver`: the
requests of an epoch are those in the pipe, in hand, in the queue and in the slots
that can still answer.

`DnsStream` has the buffer with its bytes. A byte is known by its place among all that were written, and
`ends` says which of these places have newlines; so "whole line" can be said, and what is still to be cut is a run of
numbers, which a proof can speak of without recursion. `Called`, `Read`, `ParseLine`, `Shift` are the
pieces of the two loops of `dns_input_callback` between which the writer may write. A line may be longer than the
buffer: an answer `id|address|name` or a typed host name can be (`DNS_BUF_SIZE` is 160 on Linux, `dns.c:51`). The read then asks for 0 bytes
and gets them for ever, which is `Stuck`; or, when the call has cut a line before, the shift by the `first_used` of that line drops bytes of
the long one, and the callback comes out with the rest of it.

### FilterCache (filter.c, flt-player.c, srv-list.c, xqf.c)

The data of a server is one value of `Infos`; a filter is the set of values it
lets through. All that matters for the cache is kept: `filter_current_time`,
`last_changed`, `flt_last`, `flt_mask`, `filters`, and *when* each is written. `Apply` is
`apply_filters`; `Rebuild` is `server_clist_set_list` after it. The history `trust` says of a
filter whether it is on and has been since its last dated change (`fresh`), has changed
without a date (`loose`), or neither (`kept`).

### JobSlot (xqf.c, redial.c, dialogs.c)

A job is reduced to whether it waits for `qstat` or for the helper; what counts is who
owns `stat_process`, the callback and the requests. `ui.loops` are the nested calls
of `gtk_main`, each with the dialog it was opened for and the condef of the launch; `ui.wins` are
the windows. `AnswerDialog` destroys a window and ends the *innermost* loop, as the
code does, whoever opened it; what the caller does then is part of the step
(`ReturnedToLaunch`, `ReturnedToMain`). A launch asks one question after the other, each in a loop of its own: the preferences and then the
name of a demo before its job starts; then whether to go on with a server that is marked (`sucks`), of another version (`incompatible`),
or does not answer (`unreachable`), in this order, each if it applies (`Later`, `NextQuestion`), or what to do about one that is
`full`; then the `password` and what to do about a game that is `running` (`Part2`, `ClientLaunches`).
The server's answers are free choices here, so each question may be asked or not. `redial.timers` are the countdowns that run, `redial.id`
the one that `timeoutid` remembers.

The history `careless` becomes true when the user does what breaks the program by
itself (section 5); what then follows is still explored, and properties with no
such premise (`SlotRuns` and `CondefHeld`, checked as parts of MCJobs' `OneJob` and
`LoopsHaveWindows`) hold for it too.

### Launch (launch.c)

`proc` is the process table, `pipe` says who holds the write end and which message
is in it: a game that starts another process and ends leaves the end with its heir.
`Handler` is one run of the SIGCHLD handler: it reaps all zombies and marks the
first client with each pid. `at` is the point of the main program where it may strike:
between two fork steps (`fork`, `attach`), inside the walk of `detach_unused`, between `client_free`
and the unlinking (`unlink`), before the `kill`. A launch whose `fcntl` fails (`AttachFails`, `launch.c:282`) leaves a game that is in no list: its `cell` is `lost`.
`missed` (history) are the launches
whose child was reaped before `client_attach`, `victims` those killed for another.

### ServerTable (server.c, host.c, and every list)

`t.srv` maps the addresses of live servers to host, port and count, and an address is
taken again after it was freed; `t.hold` are the lists of counted references. Every function
that takes or drops one is there, with those of the window (`SetList`, `BuildFiltered`),
the queue of the refresh timer (`Flushes`) and the phases of a job. Filters are any
subset. Delete (`Deleted`) takes the selected servers from the source that is shown, or, in a group, from the lists of every master that has them
(`server_remove_from_all`). `t.lost` and `t.hlost` (history) count references that the code forgets, in the four
places where it does; what they show is that the counts are off by exactly those.

### FilterDialog (filter.c, country-filter.c, xqf.c)

A filter has a name, a setting (`ping`, which stands for the numbers, switches and texts: all are
read, shown, compared and saved alike) and a list of countries. `page.widgets` is what the page shows, `page.notify` the
field `changed` that all its signals set, `changed` is `server_filter_changed`, which is what makes the page be read back
into the array. Selecting another filter, New (with a name, or with the dialog for the name cancelled, which stores the widgets all the same), Rename, Delete, the popup of countries (two lists, the
rows remembered as selected), OK, Cancel, and the restart that loads what was saved, are the actions. `own` and `spoilt`
(history, in each filter) say what the user gave it last and whether it got what he gave another.

### PlayerPatterns (flt-player.c)

`heap` is the memory of `struct player_pattern`: `players`, the list in force, and `curplrs`, its
working copy, share elements, and an element is freed when both have let go of it. Adding, editing of the
text, the groups, moving and deleting of rows, OK with its comparison (`FILTER_NOT_CHANGED`, `FILTER_DATA_CHANGED`,
`FILTER_CHANGED`), Cancel, Add Player, and the file are in it.

### Scripts (scripts.c) and Preferences (pref.c)

`Scripts` has the directory, the cache of what was read of each script, the values in memory (`data`),
the configuration, and the page. An option is a text or a number; a number is saved as `atoi` makes it, so that an empty one becomes 0
(`scripts.c:810`), also where the default is an empty text (the run has the default "1"; the proof has any). `Preferences` has one entry per setting, in the groups that the code has:
`mem` is the variable, `conf` the key, `dialog.shown` the widget. For each the module says what the widget
holds (`Clamped` spin buttons, texts as they are stripped), under which condition `get_new_defaults` stores it and
what `prefs_load` makes of what it finds: these are the places in which the three come apart. Custom arguments
are lists with a selected row that all games share.

### Config (config.c, rc.c)

A file is a sequence of lines (section, key, comment, ...) and, once it is asked for, a list of sections;
reading, `find_key`, deletion, `config_sync` with its crash in the middle, the files of the system that
stand in for those the user has not, scripts with their section between two marks, and the take-over of the
older file with its removal (`stage`) are the actions. A value is a sequence of characters, since escaping is what a
line of a file hangs on.

### Sources (source.c, xqf-ui.c, xqf.c)

`src.all` are the masters, found by address, game, kind and options as `find_master_server` and `find_master_url` do
it; `src.rows` the rows of the tree; `src.cur` the selection. The files are variables: favourites (written at each
change), lists and server records (at the end, if asked for), the masters in the configuration. A restart loads them in the
order of `init_masters` and applies the built-in changes.

### Rcon (rcon.c)

`net` is the set of datagrams on their way, which are delivered any number of times in any order
or never; `sock` the queue of the socket, with its error. The buffer has its bytes, since an answer may end
where an older one goes on. The two waits (for a challenge, and in the program without a window for an answer) are
`wait`. A window that is closed takes its socket with it, not the challenge.

## 3. The runs

All runs take two worker threads; the longest take about four minutes.

| Run | Question | Bounds, and why they are enough |
|---|---|---|
| `stat_job` | Is the bookkeeping of three jobs in a row right, whatever is stopped, fails, is lost or comes late? Does it implement `UpdateJob`? | 4 masters: 3 of Q2 (two located, one to be looked up) and one of another type with the *same* hostname, `maxsimultaneous` 2: programs must queue, both limits bind, one answer serves two masters. 3 jobs, one of each kind, so that an answer can outlive a job and meet another |
| `stat_job_live` | Does every job end, and is the limit on programs kept? | 2 jobs, no request lost (section 4), two types |
| `stat_job_q2` | *violated:* are there never two programs for Q2 masters? | the limit is 3, so that it is not what stops the second |
| `dns` | Is the helper a `Resolver`? Does it come to rest? Is each line handed over once and whole? | helper: 2 slots, 3 requests, 1 reset: one request waits for a slot, and the reset meets workers at each stage. Lines: a buffer of 4 bytes, lines of 1, 2, 4 and 7 bytes, 4 lines: several lines in one read, a line over two reads, a line that fills the buffer, one that does not fit, alone or behind others |
| `dns_stream_stale` | *violated:* is a line whole also when one call reads twice? | 3 lines that fit in the buffer: the fault needs no long one |
| `filter_cache` | Are the rows right while a filter stays on? | one server (servers meet only in the list, which is any set), two things to see, two definitions per filter that differ on them, clock to 3. The proof covers the rest |
| `filter_cache_toggle` | *violated:* are they right after a switch? | clock to 4: a change, another filter's run, a switch |
| `jobs` | Who has the slot, the loops, the condef, the countdown? Which clients are known, dead, detached, killed? | 3 jobs, 3 dialogs, 2 countdowns: one launch inside another inside a job, three questions of one launch in a row, a second countdown; 2 launches on 2 pids that are used again, 2 questions. A launch that asks more than three times (preferences, demo, three about the server, password, running game) is beyond the bound: each question hands the launch to the next in the same way, and the proof covers any number |
| `job_slot_sound` | *violated:* does the sound mean a redial, for a user who does one thing at a time? | 2 dialogs, 1 countdown, 3 jobs: a launch whose server is full, its redial dialog cancelled, a second launch |
| `server_table` | Are all references counted? | 2 addresses, 1 host with 2 ports, 1 name, one lost reference each, and `Many` = 1 in the place of 100: both branches of the refresh are taken, a server can be freed and its address used again |
| `dialogs` | Is what is edited what is used, saved and loaded again? What does the tree show? What is sent to a server, and what shown of its answers? | *filters* 2 filters, 2 edits, 3 ids of countries (none, one, the local network); *patterns* 3 edits, from an empty file or one with a comment; *scripts* 2 names, 5 kinds of script, 2 installations, 3 edits; *preferences* 3 steps, one setting of each sort that the code treats alike, 2 games; *configuration* 3 changes, a file in the user's directory with a section in two parts, one of the system, a script; *sources* 4 steps, 2 masters in memory, addresses that differ in kind or in an option only; *console* 2 windows, 2 commands, 3 arrivals, a buffer of 7 bytes. Each bound is enough for every mutant and every case of the code to show; one step more makes the run exceed five minutes |
| `filter_dialog_countries` | *violated:* does a filter keep its countries over a restart? | one filter |

`CHECK_DEADLOCK FALSE` stands where the model may stop: the jobs of the bound are
done, the writer has exited, the user has no step of the bound left, or freed memory was used (section 5). Symmetry is used
in `server_table` only, over addresses, which are compared and never chosen; that run has
no liveness.

The properties, shortly:

- `PhaseOrder`, `ReportedOnce`, `NothingMissed`, `Q2Bounded`, `ConnBound`, `LookupsCounted`
  (which says also that no host outside the job loses a reference), `KeepsPromise`, `JobEnds` (StatJob);
- `SlotsCounted`, `IsResolver`, `Drains` (DnsMaster), `WholeUnlessStale`, `Returns` (DnsStream);
- `SteadyFresh`, `SteadyRows` (FilterCache);
- `OneJob`, `LoopsHaveWindows`, `RedialGoesOn`, `JobEnds` (JobSlot), `ClientsKnown`, `ClientsLive`,
  `Detached` (Launch);
- `ReferencesExact`, `OneAtAddress` (ServerTable);
- `FilterEditsKept`, `FilterWidgetsMatch` (FilterDialog), `HeapExact`, `PatternEditsKept`, `GroupsDated` (PlayerPatterns),
  `SavedIsUsed` (Scripts), `PreferencesSaved`, `UntouchedKept` (Preferences), `ConfigMerged`, `QuitKeeps` (Config),
  `SourcesConsistent`, `SourcesSaved` (Sources), `ChallengeOurs`, `TextWhole` (Rcon).

Each is said in words above its definition; where a run has one name for several definitions of a module, the parts are
named and commented in that module.

## 4. Fairness

`MCDns` and `MCJobs` have the fairness of their machines for the one that runs.

- **StatJob**: `qstat` ends (it has timeouts and a number of retries), the main
  loop serves descriptors that are ready, the helper goes on. Nothing makes the user act.
  `JobEnds` is checked with `Lossy = FALSE`: when the helper loses a request (a fork
  that fails, a worker that dies), the job has no timeout of its own and stays open until the
  user stops it.
- **DnsMaster**: the helper is scheduled; a lookup ends, by itself or by its alarm.
- **DnsStream**: the callback is scheduled; the writer may write nothing more. `Returns` names the one state in which fairness does not help:
  a buffer full of the beginning of a line that does not fit (`Stuck`).
- **JobSlot**: every job that waits is served in the end. Dialogs may stay open for
  ever, and `JobEnds` holds all the same: nested loops serve jobs too.
- **Dialogs** (MCDialogs): none; all their properties are safety properties, and the user may stop anywhere.
- **Launch**: weak fairness for the main program between two of its steps, strong fairness for the
  callback of each pipe, since other callbacks and dialogs come in between and the main
  loop serves every descriptor that stays ready. Games may never end.

## 5. What the runs show

Five runs end in a violation on purpose; each is a sentence of the repository that the
code does not keep, quoted in `PROJECT.json` under `findings`:

1. a failed lookup of a Q2 master decrements `q2_masters` (`stat.c:1748`), though the
   master was not counted, and two programs for the fixed port run at the same time;
2. `first_used` outlives a read (`dns.c:610`): the parser gets a line without its beginning;
3. one `flt_last` serves three filters (`filter.c:302`): a filter that changed while it was
   off is switched on with its old verdicts;
4. `redialserver` stays 1 when the redial dialog is cancelled (`xqf.c:674`): a second launch, begun when all of the first is over, finds
   its server free at once and plays the sound of a successful redial. The property is stated for a user who is not `careless`, so that nothing
   else goes on beside;
5. the countries of a filter are saved as codes and looked up as names (`country-filter.c:130`), and are gone after
   a restart.

Other behaviour of the code is in the models as it is, and the properties are stated around
it, in the open:

- *StatJob*: answers to a stopped job are counted by the next one (`stale`), so `masters_to_resolve`
  may go below zero; then `maxsimultaneous` is exceeded by that much
  (`ConnBound`), and a host that is not in the job's list loses a reference (`LookupsCounted`).
- *DnsStream*: a line longer than the buffer leaves no room to read into, and the loop at `dns.c:617` spins on reads of 0 bytes
  for good: the process, XQF or the helper, hangs. This is `Stuck`, which `Returns` has as its second alternative; every other call comes back. If the
  call had cut a line before, the stale `first_used` happens to make room: bytes of the long line are dropped, what is left of it is handed over as a
  string that is marked stale, and the line behind it is whole. `Framing` says that bytes are dropped of such a line only.
- *FilterCache*: with no filter left after the dialog nothing is rebuilt (`xqf.c:404`); an edit that ends at the
  defaults is not dated (`filter.c:630`); a blank typed into the quick filter inverts its switch
  (`xqf.c:2228`; the pass run has no blank text); Add Server looks for a row that the rebuild
  before it may have filtered out (`xqf.c:1149`). These make a filter `loose`.
- *JobSlot*: a launch does not look at the slot (`xqf.c:881`) and starts a second job beside
  the first, which takes the helper's callback from it; Return without a selected server
  launches NULL (`xqf.c:1686`); a list or another launch begun in the moment between the end of a launch's job and its questions (`check_launch` runs
  from a timer) puts these beside it; a redial dialog left while its countdown or its job goes on
  leaves them to a window that is gone (`redial.c`). This is `careless`.
- *Launch*: when `fcntl` fails (`launch.c:282`) the game runs and is in no list, so the next launch does not ask about it (`RunningKnown` has it as an
  exception); a child reaped before `client_attach` is never marked dead (`missed`), and its pid
  may be that of another game when it is killed; a launch from under the error dialog frees
  the client the dialog returns to (`careless`); the handler may walk a client that was freed and
  not yet unlinked (`broken = "handler"`: no property excludes it, the model ends there).
- *ServerTable*: the reference of `server_add` is forgotten for each server a master
  lists (`stat.c:299`) and for Add Server (`xqf.c:1200`), those of the queue above 100 items
  (`xqf.c:449`), and those of the selected servers of Delete (`xqf.c:1314`): such servers are
  never freed. An answer for a host the job does not have in its list drops a reference of another
  (`stat.c:1838`); the model ends there (`stray`). A server that moves to another port may meet one
  that is there (`server.c:302`, `OneAtAddress`).

- *FilterDialog*: `server_filter_changed` outlives a dialog that was cancelled (`filter.c:921`, `1483`), and the next
  Delete may fill another filter with the widgets (`filter.c:1042`); the row remembered as selected in the popup
  (`filter.c:1663`) may be gone; while the dialog is open `server_pass_filter` may index the array above its end
  (`filter.c:345`). The properties speak of filters that are not `spoilt`.
- *PlayerPatterns*: with a pattern that stands in the list twice, a change of groups is called
  `FILTER_DATA_CHANGED` (`flt-player.c:332`, `350`), and the players keep their old groups; `FreshUnlessRepeated` says so.
- *Scripts*: OK after Install reads the widgets of a page that was not rebuilt (`scripts.c:804`; the message at `scripts.c:980`
  asks the user to reopen the dialog): `crashed`, no property excludes it. Installing a known script again frees its entries,
  one of them a string constant (`scripts.c:274`). What a faulty script said of itself stays in the cache (`scripts.c:235`).
- *Preferences*: a skin whose default is empty is not taken (`pref.c:886`); the list of custom arguments frees
  strings it goes on to use (`pref.c:824`); the selected row is one variable for all games (`pref.c:213`), and Delete removes the row before it is
  looked at (`pref.c:2538`); the menu items of the main window do nothing while a job runs and are then out of step (`xqf.c:1539`);
  REXUIZ stores the widgets of Nexuiz (`pref.c:3288`); the options of Alien Arena are stored and never loaded; ports above 65535 wrap (`pref.c:1381`).
- *Config*: the error of a script's closing mark is ignored (`config.c:266`); a user's file that became empty is
  removed, and the system's file shines through; a crash in the write leaves half a file, since it is written in place (`config.c:681`), and one before the first
  write loses what the older file had, which is removed before (`pref.c:4772`, `4883`). `lost` marks both.
- *Sources*: two masters whose addresses differ in an option that one leaves out count as one (`source.c:685`);
  those by URL are found whatever their game (`source.c:342`); a list read back gives its servers' query type to the master (`source.c:523`); the group of the local
  network stays when its last master goes (`xqf-ui.c:503`); Delete in a group removes a favourite and does not save (`xqf.c:1297`).
- *Rcon*: after a `recv` that fails the size of the message before is used for the text (`rcon.c:449`); for Doom 3
  that size counts the header (`rcon.c:411`), so bytes of an older answer may follow; an empty challenge is kept for good (`rcon.c:222`); a datagram
  that comes in the wait for the challenge is swallowed (`rcon.c:209`). `ShownWhole` says how much of another message the text may hold.

## 6. What is proved

`StatJobProofs` proves `TypeCorrect`: `Spec => []TypeOK` of the job engine, for any
masters, servers, names, hosts, inputs, limits and preferences that satisfy `StatJobAssumption` and
`ResolverAssumption`. `TypeOK` is inductive by itself. The lemmas follow the modules: what
`Ask`, `Cancel`, `Answer`, `Reset` and `Lose` do to the batches of the resolver (they stay a nonempty sequence
of bags), then that each piece a callback is made of (`Close`, the `StatNext...`, `UpdateMasters`,
`MasterDone`) yields a `Job`, then one step per action. It is not idle: the job is rebuilt
by computed records, and that `batches[1]` exists when an answer is taken is what the code's
pipes guarantee and the model must too.

It goes on from there, under the same assumptions, to

- `PhaseOrderCorrect`, `ReportedOnceCorrect`, `Q2BoundedCorrect`: `Spec => []P` for the three
  invariants of these names;
- `PromiseKept`: `Spec => KeepsPromise`, that is, the initial state of the engine is one of
  `UpdateJob`, and each step of it is a step of `UpdateJob` or none.

None of the three is inductive. `Inv`, which is, has two parts:

- `Ordered(job, callback)`: which work is done in each phase, which callback belongs to it, and that the
  program for the servers runs in the refresh phase only. `PhaseOrder` needs the callback,
  since it is what keeps an answer of one phase from being taken in another.
- `Books(j, S)` while a job runs, `Over(j)` when none does. The masters given to the job are parted
  into those that wait, those that a program runs for, those reported (`times` is 1, else 0), and `S`; and `q2 + lostQ2` is the number
  of Q2 masters that a program runs for *and of those in `S`*. `S` is what makes it
  go through: `stat_master_update_done` is called after the master was taken out of the lists of the job,
  from four places, one of them inside the loop that starts programs, so that between the two the
  counts are off by exactly the masters in hand. In the states between two callbacks `S` is empty.

`MasterDoneBooks` says that the function closes the books on `S`, `StartedBooks` that a start keeps
them (this is where the test of `q2_masters` is used, and the bound comes from); `CloseSafe`, `GoesSafe`, `AfterMastersSafe` and `UpdateMastersSafe` say for each way that
a callback can end what holds then and which masters it reported, and there is one lemma for each action. `Reports`
is the step of `UpdateJob` in terms of masters that wait and masters reported, `ReportsJoin` puts two in a row
together: a callback may report the master whose program ended and, in the loop after it, those that failed to start.

A second invariant, `Kept`, stands on the first and gives `NothingMissedCorrect`, `ConnBoundCorrect` and `LookupsCountedCorrect`:

- `Gathered`: the servers that the masters reported so far have listed are the job's, and so is the server of each linked name that is
  not still to be looked up. Servers come from these two places, in two phases, and the second is seen by `NothingMissed` only in the third.
- `Bounded`: programs run for at most `maxsimultaneous` masters, and for as many more as `masters_to_resolve` is below zero.
- `Counted`: of the current epoch, each lookup that the job waits for (`Awaited`) has one request or one answer on its way, or was lost, and there is no other. No answer
  is of a later epoch (`Past`), so that `/RESET`, which begins an epoch, makes `Expected` true with nothing expected; an answer of an earlier epoch can be counted only
  by setting `stale`, which the properties name. That the answers to a job without stale ones are its own is what makes `masters_to_resolve` exact.

`AskExpected`, `CancelExpected`, `ReadExpected` and `HelperExpected` say this of the four things that are done to the pipes; `StartedKeeps` counts the programs
in the loop with two limits. Here `StatJobAssumption` is used to say that the lookup of an address answers with the address itself (`dns.c:386`).

`DnsProofs` proves, for any size of the buffer and lines of *any* length, that the states of `DnsStream` satisfy `TypeOK`, `Framing`
and `WholeUnlessStale` (`LinesCorrect`). `StreamInv` says where the rest of what was written is: from `Start` on in the buffer and then in the pipe, byte after byte,
behind the byte `Base` (`Placed`). `Start` is `first_used`, *except* in a read that follows another in the same call, where it is 0 and `first_used` is stale.
`Base` is the end of the last line that was cut, *except* when bytes were dropped: `Behind` says that they are of the next line alone, that this one does not fit, and
that the call which dropped them is still going on, with `first_used` stale until its newline is found. `Fresh` is what saves the
framing of the others: a second read of a call completes a line or fills the buffer (a line is written whole, so if it fits its newline is in the pipe when the first read has filled the buffer: `ReadKeeps`).
If it completes a line, cutting it sets `first_used` right before the buffer is shifted by it; if it fills the buffer and there is no newline, the line does not fit (`ShiftKeeps`). `FirstNewline` says that the newline `memchr` finds first is the end of the next line.

It also proves `SlotsCountedCorrect`: `Spec => []SlotsCounted` for any number of slots and any
requests. `dns_workers_num` is a number and the slots are an array; that they agree is the invariant itself,
but it is not inductive alone. `Inv` adds that what `select` found readable stays so until it is drained (`ReadyIsReadable`:
the slots in `ready` are those that have output or have ended, whatever alarms come between), and that a line in hand
has a slot to go to (`InHand`). Reaping and forking then change count and slot together, in one step each, and the cardinality of the busy slots
follows from the library's facts on finite sets. The assumption on the constants is a hypothesis here, since the module is one that others only instantiate.

`HelperIsResolver` is the refinement: `Spec => IsResolver`, whatever the slots, requests and resets. `ResolverView` shows each epoch that the helper
is in or has not reached as a bag of requests, counted over the pipe, the line in hand, the queue and the slots whose worker has not
answered. What makes the counts move together is `RefInv`, which adds two facts to `Inv`. `Numbered`: the epochs of the lines in the pipe are in
order, only a `/RESET` line begins one, and the helper is in that of the next line (`Heard`). `Current`: what is in hand, in the queue or in a slot
is all of the epoch the helper is in, since `/RESET` empties the queue and the slots, so that what it throws away is exactly one bag.
Each step is then an action of `Resolver` or a stutter. The writer's lines are `Ask` (`MoreBatches`) and `Cancel` (`LaterBatches`);
the `/RESET` that is read is `Reset` (`NextBatches`); an answer written, a fork that fails and an alarm take one request away (`LessBatches`), the first as `Answer`,
the others as `Lose`; a request that goes from pipe to queue, or from queue to slot, only changes its place (`SlotFilled`, `SlotLeft`).

The last part is about `MCDns`, where the helper and the stream stand side by side: `WholeUnlessStaleCorrect`, `SlotsCountedBeside` and `IsResolverCorrect`.

`DialogsProofs` is about the machines of `MCDialogs`, one part for each, from the assumptions on their constants that `MCDialogs` states (`RconAssumption`, `DialogsAssumption`).
Each part is an invariant of one machine; a step of `DialogsNext` is a step of that machine or leaves its variables alone.

- *Console.* `RconInv` says that each challenge on its way was issued, that the one held was issued to the window that is open, and that the socket holds
  answers to this window only, none when it is closed. The last is what makes a late answer to an earlier window harmless: it goes to a socket that is
  closed. `ChallengeOursCorrect` follows. `TextInv` follows the buffer: `RawIn`, `FilledIn` and `SeenIn` say what a datagram leaves of an older one, `SeenWhole` that
  what is seen up to the NUL the code writes behind it is the datagram, `FirstNul` and `Doom3Cut` where a string ends that has one inside. `TextWholeCorrect` is what the window makes of it.
  That the buffer has room for the NUL (`RconAssumption`: it is larger than any datagram, as the 65536 bytes of `packet` in `rcon.c` are) is used here.
- *Scripts.* `SavedIsUsedCorrect`: `ScriptsInv` says that each script in memory is what `Script` makes of its saved section, and that a script has widgets only while the page that OK reads
  is open. `KeptFine` does it for OK, where the text of a widget is saved, converted or removed as `scripts.c` does, and the value in memory set beside it; `InstallKeeps` for a script that comes while the page is open.
- *Filters.* `FilterEditsKeptCorrect` and `FilterWidgetsMatchCorrect`, from the lemmas of `FilterDialogProofs`.
- *Patterns.* `HeapExactCorrect`, `PatternEditsKeptCorrect` and `GroupsDatedCorrect`, from the lemmas of `PatternsProofs`.
- *Preferences.* `PreferencesSavedCorrect` and `UntouchedKeptCorrect`, from the lemmas of `SavedStateProofs`.
- *Sources.* `SourcesConsistentCorrect`, from the lemmas of `SavedStateProofs` too. These three are modules of their own because the provers are much faster in a smaller context.

`FilterDialogProofs` has the invariant `Inv` of the filter dialog, which says what the page hides:

- `Stands`: outside the dialog the filters there are, inside it *the backup*, have what the user gave them (`Kept`), are those of the menu, and are what the sections
  of the configuration give when they are read again (`Again`). That OK is the only step that changes the configuration, and that Cancel need not repair it, is this clause.
- `PageFine`: each filter but the one on the page has what the user gave it; for that one it is `Shows`: if `server_filter_changed` is set, the *widgets* are what the user gave, and the array
  may have anything; if not, the array is right and the widgets show it. The names are those of the menu unless the page is told of a change, and no filter is shown only if there is none.
- `Rows`: no country is twice in the list of the popup, its length is the number that is counted by hand, and nothing is remembered as selected when the popup is opened.

`StoredKept` is the step that all the callbacks share: what is read back of a page that is fine makes the filter right. `FilledKeeps`, `EnteredKeeps` and `ClosedKeeps` are the three ways in which an action
ends (the page shows a filter, the widgets have new values, the dialog is gone), and each action has a lemma that leads to one of them. `SpoiltKept` is for the two places where a filter is filled
from the wrong widgets, which the property excepts. `SavedAgain` and `LoadStands` say that what is saved is read again, and what is read would be saved so. They need facts of the tables of GeoIP, in
`FilterDialogAssumption`: the code of the local network is that of no country, and no country is *named* like a code, since `geoip_id_by_code` compares codes with names (`country-filter.c:129`) and so finds none of the world.

`PatternsProofs` has the invariant `Inv` of the player patterns: while the page is open (`PageFine`) what is allocated is what the two lists have, and a pattern is dirty *if and only if* the list in use does
not have it, which is what the three places that free by the dirty mark rest on; a list has no pattern twice; `Owned` and `Settled` say that each text is what the user gave, but for what is still in
the entry; and the file has the contents of the list in use. `SyncedFine` is the copy on write, `ChangeFine` what a change in the copy may do, `MarkedFine` what OK marks.
`GroupsDated` needs more: `CompareSame` says that a comparison that finds no difference paired each pattern of the one list with an equal one of the other. The code looks at one list only as it goes
through the other, so a change could hide in what it does not look at; that it cannot, without repetition, is a counting argument (`Pigeonhole`, `FoundBack`). `PlainFine` carries through the copies that no compiled text is lost.
The comparison is a recursive function (`Place`); what it computes is shown by the least place at which it would fail (`LeastOf`), from the well-foundedness of the numbers.
`Room` bounds the addresses: an operation of the page, and Add Player, are taken only while there are free ones.

`SavedStateProofs` extends two modules, whose names differ for that (`SourcesInit`, `SourcesNext`, `SourcesTypeOK`, `MasterLoaded`, ...). Its first part has the invariant `Inv` of the preferences, whatever settings are offered and entered:

- `Held`: for each setting, what is used is what would be loaded from its key now, the default if there is none (`Read`), where "is" is the comparison that its kind allows (`Same`). It is kept by OK because `StoredHeld`
  looks at each way in which the code stores (menu item, sound, name, skin, protocol, pair of ports, if it differs) and finds variable and key changed together, or both left. `WaysApart` and `KindsApart` say that a setting has one way only.
- `Showing`: the widgets that nobody touched show what `Open` made of the variable. So what OK stores of them is what was there (`StoredSame`), which is `UntouchedKept`; that the texts which are stripped, the numbers which
  are clamped and the ports come back as they went in (`Texts`, `ShownSame`) is the larger part of it.
- `Booked`: the arguments of a game are a list within its bound, saved under the numbers from 1 to its length and no other. `SavedBooked` shows that the removal of the keys after the last one finds them all: it stops at the first
  that is missing, and is right only because there was no gap before. The list is sorted at OK; all that is used of that is that no argument is lost or added.

`PreferencesAssumption` says what a user can enter: one text, one number, a pair of ports, a switch that is on or off, as the widgets allow; and that configurations of another time have such values too.

The second part of `SavedStateProofs` has the invariant `SourcesInv` of the masters, for any games, addresses, names, builtin changes and number of masters:

- `Good`: the ids of the masters differ (`Distinct`), an id is in a group if and only if there is a master of that id in the group (`Grouped`), the rows are groups and masters that there are (`There`), what is selected has a row, and
  a master that has a row has its group above it (`UnderGroup`). `HiddenFor`: no row for a master that the preferences hide. None of it can be kept alone: that `free_master` leaves nothing behind in the tree
  needs `Distinct` (the row that went was this one's, and no other master has its id), and that a group may go with its last master needs `Grouped`.
- There are no more masters than ids, and the files have the types that a start reads: the number is why `add_master` always finds a free id (`NewIdFree`, by counting).
- A favourite is in the file of favourites.

`AddedGood`, `FreedGood`, `RowGood`, `DeletedGood`, `WithoutGroupGood` and `ReshownGood` say what one call of each function keeps. The code calls them in loops over lists (the builtin changes, the masters that are loaded, the
lists that are read, the selection, the two loops of `refresh_source_list`), which the model has as `FoldLeft`. A fold over a sequence of length n is the value at `1..n` of a function on the sets of
places, so a loop invariant `I[T]`, for each set `T` of places that were done, carries through it: `LoopRuns` says that there is such a function and `LoopEnds` that its last value is in `I[1..n]`, by the
least cardinality at which it would fail. In `DeleteMasters` the invariant is that the masters still to be deleted are still there, in `UpdateBuiltin` and in a start that the list has grown by no more than the additions so far (`AddsCounted`), in
`Refreshed` that the rows looked at so far are right (`ReshownGood` leaves the others alone).

`SourcesAssumption` says that ids, groups and the favourites are different rows, that `UNKNOWN_SERVER` is no game and that addresses are records of their three parts.

The second part of `ServerListProofs` is about `FilterCache`, whose names differ from those of `ServerTable` so that one module can extend both (`FilterSpec`, `FilterInit`, `FilterNext`, `CacheTypes`, and `running` for the job). It proves, for any servers, filters, texts and times, `CacheTypesCorrect`, `SteadyFreshCorrect` and `SteadyRowsCorrect`. The
invariant `CacheInv` has, beside the types:

- `FreshRight`: a fresh filter is on; its verdict for *every* server, listed or not, is due or right; and for a listed
  server that does not wait to be redrawn it is not due. "Due or right" is what survives: a refresh makes verdicts wrong
  and, by emptying `flt_mask`, due; a change makes them wrong and due, since its date is later than any `flt_last` (this is where the types are needed);
  and a rebuild, by any filter, moves `flt_last` past the dates of the others *only together with* running those that are on.
  Just this fails for a filter that is off, which is finding 3.
- `RowsAgree`: while a filter is on, the rows of the listed servers are those with good verdicts in the cache, be they right or wrong.
- `QueueHasJob`: servers wait to be redrawn only in a job that will redraw.

`ApplyIsRight` says what `apply_filters` leaves due and what right (it takes the greatest of a set of dates, so the lemma before it shows that a bounded set of
numbers has one), `RebuildInv`, `DatedInv`, `PlainInv` and `UndatedInv` are the four ways in which an action can end, and there is one lemma per action.

The first part of `ServerListProofs` proves, for any finite sets of servers and names, any hosts, ports and limits, `ReferencesExactCorrect`
and `OneAtAddressCorrect`. A function of the code takes references, changes lists and drops references, often of many servers at once,
and calls others that do; the invariant holds between the callbacks only. So the lemmas are about tables *in the middle of a function*:

- `Books(x, e)`: in the table `x` no list has a freed server, each count is positive and is the number of lists that have the server, plus what was
  lost, plus `e`: the references that the function at hand has in its local variables. `HostBooks(x, f)` is the same of the hosts,
  whose counts include one for each server at the host. `Inv` is both with `e` and `f` zero, and one server at an address unless one has moved.
- `Ref` adds to `e`, `Unref` takes from it and may free what has none left, `Put` turns a reference of `e` into one of a list, `Cut` the reverse, `Lose` forgets
  one (`RefBalanced`, `UnrefBalanced`, `PutBalanced`, ...). That `Unref` frees nothing a list still has is here, from the
  count and not from the place it is called at.
- `Goes(x, y, C)`: from `x` to `y` only the lists in `C` have changed, no server came or moved and nothing more is lost. The lemma of an action chains these:
  what it did to one list must not free what it reads from another. An action whose local references do not end at zero has no proof; the four
  that forget some show it by the counts of `t.lost`.

What was lost of a server that has been freed is zero in `Inv` (an address is taken again), which the property does not say. `HostAnswered` is
where the books of the hosts may break (section 5): `stray` is set there, and `HostBooks` is claimed without it.

`JobsProofs` proves, for any pids and any number of launches, questions and messages, `ClientsKnownCorrect` and `ClientsLiveCorrect`. The handler may come
between any two steps of the main program, so `LaunchInv` says what is true *at each point* `at`:

- `Listed`: the list has the clients that are alive (a launch that is `lost` is none), and for the time between `client_free` and the unlinking the one that is freed.
- `Numbered`, `Forked`, `Attaching`: launches are numbered as they come; each process has a launch of its own, and before `client_attach` only the child has its number.
- `Spoken`, `ErrorsApart`, `NoErrors`: a client leaves the list when its game has ended or has written something; an error message is on screen once for a client,
  whose watch is gone, and which lives unless a launch began from under it; a careful user launches with none on screen.
- `Aimed`: the pid that is about to be killed is that of the client that the dialog was for, or of no game at all, unless a child was reaped too early (`missed`).

The steps of the games themselves (exec, writing, ends) change nothing that the invariant speaks of but the processes; one lemma, `GamesGoOn`, covers them.

Its second part proves, for any number of jobs, dialogs and countdowns, `OneJobCorrect`, `LoopsHaveWindowsCorrect` and `RedialGoesOnCorrect` from the invariant `SlotInv` of the slot. `SlotInv` has two parts, since what holds of every user says less than what holds of a careful one:

- `Sound`, always: the slot, the callback and the requests are those of jobs that run (`Table`); the condefs of the nested loops differ (`Nested`) and are exactly those of the
  launches that are asked about (`Fit`). It is `Fit` that makes each of the places that free a condef free one that is not used any more.
- `Careful`, unless `careless`: *one thing at a time* (`Calm`): a job, a launch about to be checked, or one loop with its window, in which only the redial dialog lets a countdown or
  its job go on, and never both (`Redialed`). None of the three properties is inductive without the others: that the innermost loop is that of the window which is destroyed,
  on which everything hangs, is so because there is no second loop, and there is none because every question of a launch returns before the next is asked, however many there are.

A step destroys a window, leaves its loop, and does in its caller what may open the next; so, as with the references, the lemmas are about the middle of a step:
`Pending(s, u, r, c)` is `Fit` for a launch `c` that is in hand between two loops, and `Goes` says that from such a point the step ends in `Fit`, and in `Calm` if nothing else went on.
`FreedGoes`, `ShowsGoes`, `RedialsGoes`, `Part2Goes`, `LaunchGoes` and `MainGoes` chain these in the order of the calls.

Model-checked only:

- `ConfigMerged`, `QuitKeeps`: what they say hangs on what the folds over the lines of a file compute, file by file. The loop lemmas of `SavedStateProofs` carry an invariant through a fold;
  that a second fold takes back what the first one did is more than an invariant, and no proof of it was found.
- `SourcesSaved`, for the same reason: the lists written at the end are read into masters that were themselves read back. For any addresses it would not even hold: a master
  whose option was removed answers to another one's address (`source.c:685`), and the assumption that this cannot happen is one on the sequence of what the user types.
- Liveness (`JobEnds`, `Drains`, `Returns` and the others), since the provers have no fairness.

## 7. Plan

Done, in this order: Resolver, UpdateJob, StatJob, StatJobProofs; DnsMaster, DnsStream;
FilterCache; JobSlot; Launch; ServerTable; FilterDialog; PlayerPatterns; Config; Scripts; Sources; Preferences; Rcon;
the slots in DnsProofs, `Resolver` by `DnsMaster` there, the challenges in DialogsProofs, both parts of ServerListProofs, `Kept` of StatJobProofs, the lines in DnsProofs, JobsProofs,
scripts, texts, patterns, filters, preferences and sources in DialogsProofs, PatternsProofs, FilterDialogProofs and SavedStateProofs.

What would come next: `QuitKeeps` from the loop lemmas.

### Not modelled

- **Parsers of `qstat` lines** (`stat.c`, `game.c`): functions of text whose results the models take as inputs: which
  servers a master lists, what is seen of a server, which port it moves to. What they change is in StatJob, FilterCache and ServerTable.
- **The game table** (`game.c`, `games.xml`): one command line and one parser per game, data rather than control; `exec_client` and `write_config`
  start programs and write files that XQF does not read again.
- **Views** (`srv-info.c`, `srv-prop.c`, `psearch.c`, `sort.c`, `statistics.c`, `history.c`): layout, comparison functions and sums over lists that other modules keep.
- **Map scanners** (`q3maps.c`, `utmaps.c`): readers of archives, run once per game, with no state between the calls.
- **Pictures** (`skin.c`, `pixmaps.c`, ...) and **helpers** (`utils.c`, `zipped.c`, ...): drawing, and strings and lists that the models use as values.
- Of components that are in part modelled, `PROJECT.json` says in each note what is left out: mostly widgets without state, the setup of sockets and
  directories, the compression of `huffman.c` (a fixed table), and files damaged from outside.
