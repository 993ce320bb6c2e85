--------------------------- MODULE ScheduledTasks ---------------------------
(***************************************************************************)
(* The scheduled-task inspector (inspectors/scheduled_tasks.py): cron jobs *)
(* become timers, and the timers of the host are taken as they are.        *)
(*                                                                         *)
(* host.crontabs has the lines of each cron file: [job, shortcut, fields], *)
(* fields in cron's order. Of a field is kept its form, with n for any     *)
(* number or name: "*", "n", "a,b", "a-b", "*/n", "a-b/n", and two lists   *)
(* with ranges, "a,b-c" and "a-b,c-d". A calendar is the same in the order *)
(* of OnCalendar: weekday, month, day, hour, minute.                       *)
(***************************************************************************)
EXTENDS Snapshot

Kinds == <<"minute", "hour", "dom", "month", "dow">>

\* Fault: lists are taken apart before ranges.
ListsFirst(field, kind) ==
    CASE field = "*/n" -> IF kind = "hour" THEN "00/n" ELSE "*/n"
      [] field = "a-b/n" -> "a..b/n"
      [] field = "a-b" -> "a..b"
      [] OTHER -> field

\* _cron_field_to_calendar(): a field with one dash is one range, whatever is on
\* its sides, and the names of weekdays there stay numbers; with two it is a
\* list, whose members are not looked into.
CalendarField(field, kind) ==
    CASE field = "*/n" -> IF kind = "hour" THEN "00/n" ELSE "*/n"
      [] field = "a-b/n" -> "a..b/n"
      [] field = "a-b" -> "a..b"
      [] field = "a,b-c" -> IF kind = "dow" THEN "a,b..Day" ELSE "a,b..c"
      [] field \in {"*", "n", "a,b", "a-b,c-d"} -> field

\* _cron_to_on_calendar(): of five fields. The shortcuts and the fallback take
\* expressions the scan does not pass on.
OnCalendar(fields) ==
    LET cal(i) == CalendarField(fields[i], Kinds[i])
    IN  <<cal(5), cal(4), cal(3), cal(2), cal(1)>>

\* _make_timer_service()
TimerText(calendar)   == Text(<<"timer">> \o calendar, {})
ServiceText(job, has) == Text(<<"service", IF job = "" THEN "true" ELSE job>>, has)

Timer(name, calendar, job, has) ==
    GeneratedTimerUnit(name, TimerText(calendar), ServiceText(job, has), Text(<<job>>, has))

\* A line of five fields and, in the system's crontabs, a user; a shortcut does
\* not begin with a digit or a star.
IsJob(file, line) == ~line.shortcut /\ (file.path.top = "var" => line.job # "")

IsCrontab(file) == file.path.dir \in {"cron.d", "crontab", "spool/cron"}

IsRpmOwned(file, owned) == owned /\ file.owner # None

\* _scan_cron_file(): every line of a file has the file's name. A file that cannot be
\* decoded is passed over.
ScanCronFile(host, file, owned) ==
    LET lines == Select(host.crontabs[file.path], LAMBDA l : IsJob(file, l))
    IN  IF IsRpmOwned(file, owned) \/ ~file.decodes THEN <<>>
        ELSE [i \in DOMAIN lines |->
                Timer(<<"cron">> \o file.path.name, OnCalendar(lines[i].fields),
                      lines[i].job, file.text.holds)]

\* The directories of scripts, with their schedules.
Periods ==
    <<[dir |-> "cron.hourly",  name |-> "hourly",  calendar |-> <<"*", "*", "*", "*", "n">>],
      [dir |-> "cron.daily",   name |-> "daily",   calendar |-> <<"*", "*", "*", "n", "n">>],
      [dir |-> "cron.weekly",  name |-> "weekly",  calendar |-> <<"n", "*", "*", "n", "n">>],
      [dir |-> "cron.monthly", name |-> "monthly", calendar |-> <<"*", "*", "n", "n", "n">>]>>

\* A script runs itself.
ScanPeriod(host, period, owned) ==
    LET files == Select(host.files,
                           LAMBDA f : f.path.dir = period.dir /\ ~IsRpmOwned(f, owned))
    IN  [i \in DOMAIN files |->
            Timer(<<"cron", period.name>> \o files[i].path.name, period.calendar,
                  Last(files[i].path.name), {})]

ScanFiles(host, dir, owned) ==
    LET files == Select(host.files, LAMBDA f : f.path.dir = dir)
    IN  FlattenSeq([i \in DOMAIN files |-> ScanCronFile(host, files[i], owned)])

\* _scan_systemd_timers(): the administrator's; those of packages are listed only.
LocalTimers(host) ==
    LET timers == Select(host.files, LAMBDA f : /\ f.path.top = "etc" /\ f.path.dir = UnitDir
                                                /\ Suffix(f.path) = "timer" /\ f.text # NoText)
        service(f) == Select(host.files,
                        LAMBDA g : g.path = UnitPath(Append(Front(f.path.name), "service")))
    IN  [i \in DOMAIN timers |->
            SystemdTimer(Front(timers[i].path.name), "local", timers[i].text,
                IF service(timers[i]) = <<>> THEN NoText ELSE service(timers[i])[1].text)]

\* run(): owned, whether the paths of packages are known. No file under /var
\* belongs to one here.
RunScheduled(snap, host, owned) ==
    [snap EXCEPT
        !.generated_timer_units =
            ScanFiles(host, "cron.d", owned) \o ScanFiles(host, "crontab", owned)
            \o FlattenSeq([i \in DOMAIN Periods |-> ScanPeriod(host, Periods[i], owned)])
            \o ScanFiles(host, "spool/cron", FALSE),
        !.systemd_timers = LocalTimers(host)]
=============================================================================
