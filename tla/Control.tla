------------------------------- MODULE Control -------------------------------
(* Run-time control: the command line interface of bflogic_cli.c, as a      *)
(* script that filter process 0 runs at the start of its blocks or as a     *)
(* thread with a client; the equaliser thread of bflogic_eq.c; and the      *)
(* filter processes of bfrun.c, which copy the controls once per block and  *)
(* ask the equaliser for the final choice of a coefficient set.             *)
EXTENDS CommandLine, Equaliser

CONSTANT Confs   \* the configurations: see Accepted, and net in CommandLine

VARIABLES
    conf,        \* the configuration
    icomm,       \* icomm->fctrl, delay, subdelay, ismuted; dai.c's delays and mutes
    mutex,       \* who holds glob.mutex_pipe: "free" or "cli"
    cli,         \* the interface: pc, rest of the text, newstate, quit, sleep
    script,      \* the statics of block_start(): next set, blocks to sleep, do_quit
    term,        \* the client: what is still to be sent, received and buffered
    filt,        \* the filter processes
    equalisers,  \* per equaliser: coeff, values, active_coeff, not_changed
    eq,          \* the equaliser thread: pc, renders to do, render_postponed_index
    sets,        \* coeffs_data of the equalisers' sets, and whether it is whole
    pipe, reply, \* cmdpipe and cmdpipe_reply
    asked, goal, \* the controls after every statement so far; after every set of them
    wanted       \* the values of the equalisers after every command so far
vars == <<conf, icomm, mutex, cli, script, term, filt, equalisers, eq, sets, pipe, reply,
          asked, goal, wanted>>

net == conf.net
Procs == 0..(Len(net.owner) - 1)
Owner(p) == net.owner[p + 1]
Equals == DOMAIN equalisers
None == 0

(***************************************************************************)
(* Configuration and start.                                                *)
(***************************************************************************)

(* bflogic_preinit(): a port or a script, and not both.                     *)
Accepted(c) ==
    /\ (c.port = "none") = (c.script # <<>>)
    /\ c.script # <<>> => Sets(c.script) # <<>>
    /\ EqualisersOk(c.eq)

(* The lines the interface is given, and the statements of them.            *)
Lines(c) ==
    IF c.port = "none" THEN ToSet(Sets(c.script))
    ELSE UNION {ToSet(burst) : burst \in UNION {ToSet(session) : session \in ToSet(c.sessions)}}
Statements(c) == UNION {ToSet(line) : line \in Lines(c)}

ASSUME ControlAssumption ==
    \A c \in Confs : Accepted(c) =>
        /\ c.net.owner \in Seq(Seq(DOMAIN c.net.of) \ {<<>>}) \ {<<>>}
        /\ c.net.slots \in Int
        /\ ControlsOk(c.net, c.control)
        /\ c.eq.entries \in Seq(ToSet(c.eq.entries))
        /\ c.port = "none" => Sets(c.script) \in Seq(Seq(Statements(c)))
        /\ c.port # "none" => c.sessions \in Seq(Seq(Seq(Seq(Statements(c)))))
        /\ c.port \in {"pipe", "serial"} => c.sessions # <<>>

Mode == CASE conf.port = "none" -> "script"
          [] conf.port \in {"pipe", "serial"} -> "stream"
          [] OTHER -> "socket"
FirstPc(c) == IF c.port = "none" THEN "start" ELSE "copy"

NewFilter(c, p) ==
    [pc |-> FirstPc(c), odd |-> FALSE, n |-> 1, coeff |-> -1, stale |-> FALSE, used |-> <<>>,
     prev |-> [f \in ToSet(c.net.owner[p + 1]) |-> c.control.fctrl[f].coeff]]

(* Every equaliser is rendered once, to its second set, before the filter   *)
(* processes are started.                                                   *)
Init ==
    /\ conf \in {c \in Confs : Accepted(c)}
    /\ icomm = conf.control /\ mutex = "free"
    /\ cli = [pc |-> CASE Mode = "script" -> "idle" [] Mode = "stream" -> "data" [] OTHER -> "accept",
              text |-> <<>>, ns |-> ClearChanges(net, conf.control), quit |-> FALSE,
              sleep |-> <<>>]
    /\ script = [next |-> 1, sleep |-> 0, quit |-> FALSE]
    /\ term = [sessions |-> IF Mode = "stream" THEN <<>> ELSE conf.sessions,
               left |-> IF Mode = "stream" THEN conf.sessions[1] ELSE <<>>,
               rx |-> <<>>, buf |-> <<>>, eof |-> FALSE]
    /\ filt = [p \in 0..(Len(conf.net.owner) - 1) |-> NewFilter(conf, p)]
    /\ equalisers = [e \in DOMAIN conf.eq.entries |->
                        LET new == Configured(conf.eq.entries[e], conf.eq)
                        IN  [coeff |-> new.coeff, values |-> new.values, active |-> 2,
                             not_changed |-> TRUE]]
    /\ eq = [pc |-> "read", renders |-> <<>>, postponed |-> None]
    /\ sets = [c \in UNION {ToSet(equalisers[e].coeff) : e \in DOMAIN equalisers} |->
                  LET e == CHOOSE x \in DOMAIN equalisers : c \in ToSet(equalisers[x].coeff)
                  IN  [whole |-> TRUE, is |-> IF c = equalisers[e].coeff[2] THEN equalisers[e].values
                                              ELSE [mag |-> <<>>, phase |-> <<>>]]]
    /\ pipe = <<>> /\ reply = <<>>
    /\ asked = conf.control /\ goal = conf.control
    /\ wanted = [e \in DOMAIN equalisers |-> equalisers[e].values]

(***************************************************************************)
(* The client of an interface with a port.  wait_data() waits for the file  *)
(* descriptor, also when lines are left in the buffer of the stream.        *)
(***************************************************************************)
Connected == Mode # "script" /\ cli.pc # "accept"

Send ==
    /\ Connected /\ term.left # <<>>
    /\ term' = [term EXCEPT !.rx = @ \o Head(term.left), !.left = Tail(@)]
    /\ UNCHANGED <<conf, icomm, mutex, cli, script, filt, equalisers, eq, sets, pipe, reply,
                   asked, goal, wanted>>

HangUp ==
    /\ Mode = "socket" /\ Connected /\ conf.hangup /\ term.left = <<>> /\ ~term.eof
    /\ term' = [term EXCEPT !.eof = TRUE]
    /\ UNCHANGED <<conf, icomm, mutex, cli, script, filt, equalisers, eq, sets, pipe, reply,
                   asked, goal, wanted>>

Accept ==
    /\ cli.pc = "accept" /\ term.sessions # <<>>
    /\ cli' = [cli EXCEPT !.pc = "data"]
    /\ term' = [sessions |-> Tail(term.sessions), left |-> Head(term.sessions), rx |-> <<>>,
                buf |-> <<>>, eof |-> FALSE]
    /\ UNCHANGED <<conf, icomm, mutex, script, filt, equalisers, eq, sets, pipe, reply,
                   asked, goal, wanted>>

(* parse() begins with clear_changes().                                     *)
Parsing(text) ==
    [cli EXCEPT !.pc = "stmt", !.text = text, !.ns = ClearChanges(net, icomm), !.quit = FALSE,
                !.sleep = <<>>]

(* fgets(): from the buffer, else from what has arrived.                    *)
Source == IF term.buf # <<>> THEN term.buf ELSE term.rx
GetLine ==
    /\ cli.pc = "data" /\ (term.rx # <<>> \/ term.eof) /\ Source # <<>>
    /\ cli' = Parsing(Typed(Head(Source)))
    /\ term' = [term EXCEPT !.buf = Tail(Source), !.rx = IF term.buf # <<>> THEN @ ELSE <<>>]
    /\ UNCHANGED <<conf, icomm, mutex, script, filt, equalisers, eq, sets, pipe, reply,
                   asked, goal, wanted>>

Disconnect ==
    /\ cli.pc = "data" /\ term.eof /\ Source = <<>>
    /\ cli' = [cli EXCEPT !.pc = "accept"]
    /\ UNCHANGED <<conf, icomm, mutex, script, term, filt, equalisers, eq, sets, pipe, reply,
                   asked, goal, wanted>>

(***************************************************************************)
(* parse() and parse_command().                                            *)
(***************************************************************************)
Statement ==
    /\ cli.pc = "stmt" /\ cli.text # <<>> /\ Head(cli.text).op # "lmc"
    /\ LET st == Head(cli.text)
           commits == st = EmptyStatement /\ AreChanges(net, cli.ns)
       IN  /\ cli' = [cli EXCEPT
                         !.text = Tail(@),
                         !.pc = IF commits THEN "lock" ELSE @,
                         !.ns = Entered(net, st, @),
                         !.quit = @ \/ st.op = "quit",
                         !.sleep = IF st.op = "sleep" /\ Mode = "script" THEN <<st>> ELSE @]
           /\ asked' = Changed(net, st, asked)
    /\ UNCHANGED <<conf, icomm, mutex, script, term, filt, equalisers, eq, sets, pipe, reply,
                   goal, wanted>>

(* lmc: bflogic_command() of the equaliser runs in the caller's thread.     *)
Command ==
    /\ cli.pc = "stmt" /\ cli.text # <<>> /\ Head(cli.text).op = "lmc"
    /\ LET st == Head(cli.text)
           mine == {e \in Equals : Controls(equalisers[e].coeff, st.coeff)}
           taken == {e \in mine : CommandOk(equalisers[e].values, st.cmd)}
           waits == taken # {} /\ st.cmd.what = "info"
       IN  /\ pipe' = pipe \o SetToSeq({[e |-> e, cmd |-> st.cmd] : e \in taken})
           /\ wanted' = [e \in Equals |-> IF e \in taken THEN BandsSet(wanted[e], st.cmd)
                                          ELSE wanted[e]]
           /\ cli' = [cli EXCEPT !.text = Tail(@), !.pc = IF waits THEN "reply" ELSE @]
    /\ UNCHANGED <<conf, icomm, mutex, script, term, filt, equalisers, eq, sets, reply, asked, goal>>

Answer ==
    /\ cli.pc = "reply" /\ reply # <<>>
    /\ reply' = <<>> /\ cli' = [cli EXCEPT !.pc = "stmt"]
    /\ UNCHANGED <<conf, icomm, mutex, script, term, filt, equalisers, eq, sets, pipe,
                   asked, goal, wanted>>

(* commit_changes() under control_mutex: channels, then filters.            *)
CommitChannelsUnlocked ==   \* mutant
    /\ cli.pc = "lock"
    /\ icomm' = ChannelsCommitted(net, icomm, cli.ns)
    /\ cli' = [cli EXCEPT !.pc = "filters"]
    /\ UNCHANGED <<conf, mutex, script, term, filt, equalisers, eq, sets, pipe, reply, asked, goal, wanted>>
CommitChannels ==
    /\ cli.pc = "lock" /\ mutex = "free"
    /\ mutex' = "cli"
    /\ icomm' = ChannelsCommitted(net, icomm, cli.ns)
    /\ cli' = [cli EXCEPT !.pc = "filters"]
    /\ UNCHANGED <<conf, script, term, filt, equalisers, eq, sets, pipe, reply, asked, goal, wanted>>

CommitFilters ==
    /\ cli.pc = "filters"
    /\ mutex' = "free"
    /\ icomm' = FiltersCommitted(icomm, cli.ns)
    /\ cli' = [cli EXCEPT !.pc = "stmt", !.ns = ClearChanges(net, icomm')]
    /\ goal' = asked
    /\ UNCHANGED <<conf, script, term, filt, equalisers, eq, sets, pipe, reply, asked, wanted>>

(* The end of the text.  quit ends the session of a socket and a script;    *)
(* stream_loop() does not look at what parse() returns.  A sleep is put     *)
(* into blocks: a time passes within at most n of them.                     *)
SleepBlocks(st) == IF st.blocks THEN {st.n} ELSE 0..st.n
EndOfText ==
    /\ cli.pc = "stmt" /\ cli.text = <<>>
    /\ IF AreChanges(net, cli.ns)
       THEN /\ cli' = [cli EXCEPT !.pc = "lock"]
            /\ UNCHANGED <<script, filt, goal>>
       ELSE /\ goal' = asked
            /\ IF Mode = "script"
               THEN /\ cli' = [cli EXCEPT !.pc = "idle"]
                    /\ \E n \in IF cli.sleep = <<>> THEN {0} ELSE SleepBlocks(cli.sleep[1]) :
                           script' = [script EXCEPT !.sleep = n, !.quit = cli.quit]
                    /\ filt' = [filt EXCEPT ![0].pc = "hooked"]
               ELSE /\ cli' = [cli EXCEPT !.pc = IF cli.quit /\ Mode = "socket" THEN "accept" ELSE "data"]
                    /\ UNCHANGED <<script, filt>>
    /\ UNCHANGED <<conf, icomm, mutex, term, equalisers, eq, sets, pipe, reply, asked, wanted>>

(* block_start(), the hook of filter process 0: the next set of statements, *)
(* or nothing while the script sleeps and after it has quit.                *)
BlockStart ==
    /\ Mode = "script" /\ filt[0].pc = "start"
    /\ IF script.quit \/ script.sleep > 0
       THEN /\ script' = [script EXCEPT !.sleep = IF script.quit THEN @ ELSE @ - 1]
            /\ filt' = [filt EXCEPT ![0].pc = "hooked"]
            /\ UNCHANGED cli
       ELSE /\ LET all == Sets(conf.script)
               IN  /\ cli' = Parsing(all[script.next])
                   /\ script' = [script EXCEPT !.next = IF @ = Len(all) THEN 1 ELSE @ + 1]
            /\ filt' = [filt EXCEPT ![0].pc = "hook"]
    /\ UNCHANGED <<conf, icomm, mutex, term, equalisers, eq, sets, pipe, reply, asked, goal, wanted>>

Cli == \/ Accept \/ GetLine \/ Disconnect \/ Statement \/ Command \/ Answer
       \/ CommitChannels \/ CommitFilters \/ EndOfText

(***************************************************************************)
(* Filter process p.                                                       *)
(***************************************************************************)

(* How far a process is in its block; all pass a barrier when all are there. *)
Rank(p) ==
    CASE filt[p].pc \in {"start", "hook"} -> IF p = 0 THEN 0 ELSE 1
      [] filt[p].pc = "hooked" -> 1
      [] filt[p].pc = "copy" -> 2
      [] filt[p].pc = "synch" -> 3
      [] filt[p].pc = "mix" -> 5
      [] OTHER -> 4
AllAt(p, barrier) ==
    \A q \in Procs : IF filt[q].odd = filt[p].odd THEN Rank(q) >= barrier ELSE barrier = 5

AfterHook(p) ==
    /\ Mode = "script" /\ Rank(p) = 1 /\ AllAt(p, 1)
    /\ filt' = [filt EXCEPT ![p].pc = "copy"]
    /\ UNCHANGED <<conf, icomm, mutex, cli, script, term, equalisers, eq, sets, pipe, reply,
                   asked, goal, wanted>>

(* What process p takes over from the controls under the mutex.             *)
View(c, p) == [fctrl |-> [f \in ToSet(Owner(p)) |-> c.fctrl[f]], delay |-> c.delay,
               subdelay |-> c.subdelay, ismuted |-> c.ismuted]
Copy(p) ==
    /\ filt[p].pc = "copy" /\ mutex = "free"
    /\ filt' = [filt EXCEPT ![p].pc = "synch", ![p].used = View(icomm, p)]
    /\ UNCHANGED <<conf, icomm, mutex, cli, script, term, equalisers, eq, sets, pipe, reply,
                   asked, goal, wanted>>

Synch(p) ==
    /\ filt[p].pc = "synch" /\ AllAt(p, 3)
    /\ filt' = [filt EXCEPT ![p].pc = "choose", ![p].n = 1]
    /\ UNCHANGED <<conf, icomm, mutex, cli, script, term, equalisers, eq, sets, pipe, reply,
                   asked, goal, wanted>>

(* coeff_final(): a set of an equaliser is replaced by its active one, and  *)
(* only then the equaliser is told that the change has been seen.           *)
Filter(p) == Owner(p)[filt[p].n]
Choose(p) ==
    /\ filt[p].pc = "choose"
    /\ LET coeff == filt[p].used.fctrl[Filter(p)].coeff
           mine == {e \in Equals : Controls(equalisers[e].coeff, coeff)}
       IN  filt' = [filt EXCEPT
                       ![p].coeff = IF mine = {} THEN coeff
                                    ELSE LET e == CHOOSE x \in mine : TRUE
                                         IN  equalisers[e].coeff[equalisers[e].active],
                       ![p].pc = IF mine = {} THEN "convolve" ELSE "seen",
                       ![p].stale = FALSE]
    /\ UNCHANGED <<conf, icomm, mutex, cli, script, term, equalisers, eq, sets, pipe, reply,
                   asked, goal, wanted>>

Seen(p) ==
    /\ filt[p].pc = "seen"
    /\ \E e \in Equals :
           /\ Controls(equalisers[e].coeff, filt[p].coeff)
           /\ equalisers' = [equalisers EXCEPT ![e].not_changed = FALSE]
           /\ filt' = [filt EXCEPT
                          ![p].pc = "convolve",
                          ![p].stale = filt[p].coeff # equalisers[e].coeff[equalisers[e].active]]
    /\ UNCHANGED <<conf, icomm, mutex, cli, script, term, eq, sets, pipe, reply, asked, goal, wanted>>

(* The convolution, over several states: the set, and with cross-fade the   *)
(* one of the block before, are read while other threads run.               *)
Convolved(p) ==
    /\ filt[p].pc = "convolve"
    /\ filt' = [filt EXCEPT ![p].prev[Filter(p)] = filt[p].coeff,
                            ![p].n = @ + 1,
                            ![p].pc = IF filt[p].n = Len(Owner(p)) THEN "mix" ELSE "choose"]
    /\ UNCHANGED <<conf, icomm, mutex, cli, script, term, equalisers, eq, sets, pipe, reply,
                   asked, goal, wanted>>

EndBlock(p) ==
    /\ filt[p].pc = "mix" /\ AllAt(p, 5)
    /\ filt' = [filt EXCEPT ![p].pc = FirstPc(conf), ![p].odd = ~@, ![p].n = 1]
    /\ UNCHANGED <<conf, icomm, mutex, cli, script, term, equalisers, eq, sets, pipe, reply,
                   asked, goal, wanted>>

FilterStep(p) == AfterHook(p) \/ Copy(p) \/ Synch(p) \/ Choose(p) \/ Seen(p) \/ Convolved(p) \/ EndBlock(p)

(***************************************************************************)
(* The equaliser thread.                                                   *)
(***************************************************************************)
PostponedBut(e) == IF eq.postponed \in {None, e} THEN <<>> ELSE <<eq.postponed>>
Postponed == PostponedBut(None)
Rendering(renders, postponed) ==
    [pc |-> IF renders = <<>> THEN "read" ELSE "poll", renders |-> renders, postponed |-> postponed]

(* A command.  A change is rendered at once, and then what was postponed;   *)
(* when another command is waiting it is postponed itself.                  *)
AfterChange(e) ==
    IF Tail(pipe) # <<>> THEN Rendering(PostponedBut(e), e)
                         ELSE Rendering(<<e>> \o PostponedBut(e), None)
AfterInfoForgets == Rendering(<<>>, eq.postponed)   \* mutant
AfterInfo == Rendering(Postponed, None)

ReadCommand ==
    /\ eq.pc = "read" /\ pipe # <<>>
    /\ LET e == Head(pipe).e
           cmd == Head(pipe).cmd
       IN  /\ equalisers' = [equalisers EXCEPT ![e].values = BandsSet(@, cmd)]
           /\ reply' = IF cmd.what = "info" THEN <<equalisers[e].values>> ELSE reply
           /\ eq' = IF cmd.what = "info" THEN AfterInfo ELSE AfterChange(e)
    /\ pipe' = Tail(pipe)
    /\ UNCHANGED <<conf, icomm, mutex, cli, script, term, filt, sets, asked, goal, wanted>>

(* render_equaliser(): wait until the last change has been seen, render     *)
(* into the set that is not active, make it active, and say so.             *)
Now == Head(eq.renders)
Target == equalisers[Now].coeff[3 - equalisers[Now].active]
MayRenderAtOnce == TRUE   \* mutant
MayRender == ~equalisers[Now].not_changed
Render ==
    /\ eq.pc = "poll" /\ MayRender
    /\ sets' = [sets EXCEPT ![Target].whole = FALSE]
    /\ eq' = [eq EXCEPT !.pc = "write"]
    /\ UNCHANGED <<conf, icomm, mutex, cli, script, term, filt, equalisers, pipe, reply,
                   asked, goal, wanted>>

Rendered ==
    /\ eq.pc = "write"
    /\ sets' = [sets EXCEPT ![Target] = [whole |-> TRUE, is |-> equalisers[Now].values]]
    /\ eq' = [eq EXCEPT !.pc = "swap"]
    /\ UNCHANGED <<conf, icomm, mutex, cli, script, term, filt, equalisers, pipe, reply,
                   asked, goal, wanted>>

Swap ==
    /\ eq.pc = "swap"
    /\ equalisers' = [equalisers EXCEPT ![Now].active = 3 - @]
    /\ eq' = [eq EXCEPT !.pc = "mark"]
    /\ UNCHANGED <<conf, icomm, mutex, cli, script, term, filt, sets, pipe, reply, asked, goal, wanted>>

Mark ==
    /\ eq.pc = "mark"
    /\ equalisers' = [equalisers EXCEPT ![Now].not_changed = TRUE]
    /\ eq' = Rendering(Tail(eq.renders), eq.postponed)
    /\ UNCHANGED <<conf, icomm, mutex, cli, script, term, filt, sets, pipe, reply, asked, goal, wanted>>

Eq == ReadCommand \/ Render \/ Rendered \/ Swap \/ Mark

(***************************************************************************)
(* Specification.  The interface, the equaliser and the filter processes    *)
(* are threads that run on; clients need not send anything.                 *)
(***************************************************************************)
Filters == BlockStart \/ \E p \in Procs : FilterStep(p)
Next == Send \/ HangUp \/ Cli \/ Filters \/ Eq
Fairness == WF_vars(Cli) /\ WF_vars(Eq)
            /\ WF_vars(BlockStart) /\ \A p \in 0..1 : WF_vars(p \in Procs /\ FilterStep(p))
Spec == Init /\ [][Next]_vars /\ Fairness

(***************************************************************************)
(* Properties.                                                             *)
(***************************************************************************)

(* "Each line is carried out atomically" (brutefir.html:1578): what a       *)
(* filter process copies for a block is what the statements ask for up to   *)
(* the end of a set of them, never half of a set; and in a script every     *)
(* process works through a block with the same sets carried out.            *)
(* commit_changes() and clear_changes() of bflogic_cli.c, control_mutex and *)
(* the copy in filter_process().                                            *)
Copies(p) == filt[p].pc = "copy" /\ filt'[p].pc = "synch"
ControlsAtomic ==
    [][\A p \in Procs : Copies(p) =>
           /\ filt'[p].used = View(goal, p)
           /\ Mode = "script" => \A q \in Procs :
                  filt[q].odd = filt[p].odd /\ Rank(q) >= 3 => filt[q].used = View(goal, q)]_vars

(* "there is no risk of playing an incomplete equalizer" (brutefir.html     *)
(* 1788): the set a filter has chosen is not rendered to while the filter   *)
(* convolves with it, if the equaliser has two sets and the filter alone    *)
(* answers for it.  It does not hold for a choice that was out of date when *)
(* it was reported (coeff_final() reads the active set before it clears     *)
(* not_changed) nor for the former set during a cross-fade.                 *)
AnsweredByOthers(p, e) ==
    \E q \in Procs \ {p} : filt[q].used # <<>> /\
        \E f \in ToSet(Owner(q)) : Controls(equalisers[e].coeff, filt[q].used.fctrl[f].coeff)
NeverIncomplete ==
    \A p \in Procs, e \in Equals :
        (/\ filt[p].pc = "convolve" /\ ~filt[p].stale
         /\ Controls(equalisers[e].coeff, filt[p].coeff)
         /\ equalisers[e].coeff[1] # equalisers[e].coeff[2]
         /\ ~AnsweredByOthers(p, e)) => sets[filt[p].coeff].whole

(* All that has arrived is carried out in the end: every line received has  *)
(* been executed and committed, and every equaliser plays what its last     *)
(* commands ask for, however they were postponed.  Without a filter that    *)
(* uses it an equaliser waits for ever in its second rendering, and a       *)
(* script without quit goes on for ever.                                    *)
CliAtRest ==
    CASE Mode = "script" -> script.quit /\ cli.pc = "idle"
      [] cli.pc = "accept" -> term.sessions = <<>>
      [] OTHER -> cli.pc = "data" /\ term.rx = <<>> /\ ~term.eof
Plays(e) ==
    sets[equalisers[e].coeff[equalisers[e].active]] = [whole |-> TRUE, is |-> wanted[e]]
AtRest ==
    /\ CliAtRest /\ icomm = asked /\ goal = asked
    /\ pipe = <<>> /\ eq.pc = "read" /\ \A e \in Equals : Plays(e)
Unused == \E e \in Equals : \A f \in DOMAIN goal.fctrl :
              ~Controls(equalisers[e].coeff, goal.fctrl[f].coeff)
Loops == Mode = "script" /\ \A line \in ToSet(conf.script) : \A st \in ToSet(line) : st.op # "quit"
EverythingArrives == <>[](AtRest \/ Unused \/ Loops)
=============================================================================
