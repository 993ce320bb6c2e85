------------------------------ MODULE Services ------------------------------
(***************************************************************************)
(* The service inspector (inspectors/service.py): the state of each unit   *)
(* file, from systemctl or from the directories, against the default that  *)
(* the presets give it; who owns the units that differ; the drop-ins.      *)
(*                                                                         *)
(* A unit is a tuple of its name and its suffix. host.units has every unit *)
(* file with its state and its package, None for a local one. A rule of a  *)
(* preset file is [action, glob, all, units]: the units its pattern        *)
(* matches, all of them when it is *.                                      *)
(***************************************************************************)
EXTENDS Snapshot

Matches(rule, unit) == rule.all \/ unit \in rule.units

\* The action of the first of rules that matches unit, or default.
FirstMatch(rules, unit, default) ==
    LET matching == Select(rules, LAMBDA r : Matches(r, unit))
    IN  IF matching = <<>> THEN default ELSE matching[1].action

\* systemctl preset: the first rule that matches, enabled without one.
PresetState(rules, unit) ==
    IF FirstMatch(rules, unit, "enable") = "disable" THEN "disabled" ELSE "enabled"

\* _parse_preset_lines(): rules without wildcards are looked up before the others.
ParsePresetLines(rules) ==
    [exact       |-> Select(rules, LAMBDA r : ~r.glob),
     glob_rules  |-> Select(rules, LAMBDA r : r.glob),
     disable_all |-> \E i \in DOMAIN rules :
                        rules[i].glob /\ rules[i].all /\ rules[i].action = "disable"]

\* The base image's text if there is any, else the host's files, /etc first.
ParsePresetFiles(host, base) ==
    ParsePresetLines(IF base # None /\ base # <<>> THEN base
                     ELSE host.etc_presets \o host.usr_presets)

\* Fault: the last rule wins.
LastGlob(presets, unit) ==
    CASE FirstMatch(presets.exact, unit, None) = "enable"  -> "enabled"
      [] FirstMatch(presets.exact, unit, None) = "disable" -> "disabled"
      [] FirstMatch(Reverse(presets.glob_rules), unit, None) = "enable"  -> "enabled"
      [] FirstMatch(Reverse(presets.glob_rules), unit, None) = "disable" -> "disabled"
      [] OTHER -> "unknown"

DefaultState(presets, unit) ==
    LET exact == FirstMatch(presets.exact, unit, None)
        glob  == FirstMatch(presets.glob_rules, unit, None)
        word(action) == IF action = "enable" THEN "enabled" ELSE "disabled"
    IN  CASE exact # None -> word(exact)
          [] exact = None /\ glob # None -> word(glob)
          [] OTHER -> IF presets.disable_all THEN "disabled" ELSE "unknown"

IsLocal(host, unit)   == host.units[unit].owner = None
StateOf(host, unit)   == host.units[unit].state
UnitsIn(host, states) == {u \in DOMAIN host.units : StateOf(host, u) \in states}

\* _parse_systemctl_list_unit_files()
ListUnitFiles(host) == [u \in DOMAIN host.units |-> StateOf(host, u)]

\* _scan_unit_files_from_fs(): no local unit that is neither enabled nor masked.
ScanUnitFiles(host) ==
    LET vendor == {u \in DOMAIN host.units : ~IsLocal(host, u)}
    IN  [u \in vendor \cup UnitsIn(host, {"enabled", "masked"}) |-> StateOf(host, u)]

Action(state, default) ==
    CASE state = "enabled" /\ default # "enabled"  -> "enable"
      [] state = "disabled" /\ default = "enabled" -> "disable"
      [] state = "masked" -> "mask"
      [] OTHER -> "unchanged"

\* _resolve_owning_packages(): rpm answers, or fails for every path. A local
\* unit has no owner under either prefix.
OwningPackage(host, answers, unit, action) ==
    IF action # "unchanged" /\ answers THEN host.units[unit].owner ELSE None

DropIns(host) ==
    LET files == Select(host.files, LAMBDA f : f.path.dir = "systemd/system/*.d"
                                                  /\ Suffix(f.path) = "conf")
    IN  [i \in DOMAIN files |-> Item(files[i].path, files[i].text)]

\* run(): base is the text of the base image's presets, or None; lists, whether
\* systemctl answers; answers, whether rpm does.
RunServices(snap, host, base, lists, answers) ==
    LET current  == IF lists THEN ListUnitFiles(host) ELSE ScanUnitFiles(host)
        presets  == ParsePresetFiles(host, base)
        default(u) == DefaultState(presets, u)
        action(u)  == Action(current[u], default(u))
    IN  IF DOMAIN current = {} THEN snap
        ELSE [snap EXCEPT
                !.state_changes  = [u \in DOMAIN current |->
                    ServiceStateChange(current[u], default(u), action(u),
                                       OwningPackage(host, answers, u, action(u)))],
                !.enabled_units  = {u \in DOMAIN current : action(u) = "enable"},
                !.disabled_units = {u \in DOMAIN current : action(u) = "disable"},
                !.drop_ins       = DropIns(host)]
=============================================================================
