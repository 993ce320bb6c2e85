----------------------------- MODULE Redaction ------------------------------
(***************************************************************************)
(* redact.py: the pass over a snapshot that precedes every rendering, and  *)
(* the scan of the output that precedes a push. The diffs of --config-     *)
(* diffs, the environment of running containers, the GRUB defaults, sudoers*)
(* rules and the names in passwd are texts like the ones here.             *)
(***************************************************************************)
EXTENDS Snapshot

ExcludedPlaceholder == Text(<<"excluded">>, {})

\* _is_excluded_path()
IsExcludedPath(path) ==
    \/ Suffix(path) \in {"key", "keytab"}
    \/ path.top = "etc" /\ path.dir = "" /\ path.name \in {<<"shadow">>, <<"gshadow">>}

\* REDACT_PATTERNS in their order: a keyword that does not match a secret may match
\* its mark, in the next pass: 'token: REDACTED_BEARER_TOKEN_...'.
Matched(match)  == match[1] = "secret" \/ (match[1] = "mark" /\ match[2] > 0)
Mark(match)     == <<"mark", IF match[1] = "secret" THEN match[2] ELSE match[2] - 1>>
Matching(text)  == {match \in text.holds : Matched(match)}

\* _redact_text(): comments and words that are no secrets are left.
RedactText(text) ==
    IF Matching(text) = {} THEN text
    ELSE Text(text.of, (text.holds \ Matching(text)) \cup {Mark(match) : match \in Matching(text)})

\* What a text adds to the redactions of the snapshot.
Noted(where, text) == IF Matching(text) = {} THEN <<>> ELSE <<where>>

\* A section of texts, and its redactions.
RedactItems(items)        == [i \in DOMAIN items |-> [items[i] EXCEPT !.text = RedactText(@)]]
NotedIn(section, items)   ==
    FlattenSeq([i \in DOMAIN items |-> Noted(<<section, items[i].path>>, items[i].text)])

\* config.files: of some paths a placeholder is kept in place of the content.
RedactFile(entry) ==
    [entry EXCEPT !.text = IF IsExcludedPath(entry.path) THEN ExcludedPlaceholder ELSE RedactText(@)]

\* Fault: the placeholder counts as content.
NotedEachTime(entry) ==
    IF IsExcludedPath(entry.path) THEN <<<<"config", entry.path>>>>
    ELSE Noted(<<"config", entry.path>>, entry.text)

NotedFile(entry) ==
    IF IsExcludedPath(entry.path)
    THEN IF entry.text = ExcludedPlaceholder THEN <<>> ELSE <<<<"config", entry.path>>>>
    ELSE Noted(<<"config", entry.path>>, entry.text)

\* Fault: the command alone is redacted.
RedactCommand(unit) == [unit EXCEPT !.command = RedactText(@)]

\* Of a timer the service and the command, which the service has too.
RedactGenerated(unit) ==
    [unit EXCEPT !.service_content = RedactText(@), !.command = RedactText(@)]

NotedGenerated(unit) ==
    Noted(<<"service_content", unit.name>>, unit.service_content)
    \o Noted(<<"command", unit.name>>, unit.command)

RedactTimer(timer) == [timer EXCEPT !.service_content = RedactText(@)]
NotedTimer(timer)  == Noted(<<"systemd_timer", timer.name>>, timer.service_content)

\* _redact_shadow_entry(): a hash, unless the account is locked.
RedactShadow(entry) == [entry EXCEPT !.hash = IF @ = "hash" THEN "redacted" ELSE @]
NotedShadow(entry)  == IF entry.hash = "hash" THEN <<<<"shadow", entry.name>>>> ELSE <<>>

Each(op(_), list)   == [i \in DOMAIN list |-> op(list[i])]
AllOf(op(_), list)  == FlattenSeq([i \in DOMAIN list |-> op(list[i])])

\* redact_snapshot(): the sections in its order. No name of an environment file is
\* one of the excluded paths.
RedactSnapshot(snap) ==
    [snap EXCEPT
        !.config                = Each(RedactFile, @),
        !.firewall_zones        = RedactItems(@),
        !.quadlet_units         = RedactItems(@),
        !.generated_timer_units = Each(RedactGenerated, @),
        !.systemd_timers        = Each(RedactTimer, @),
        !.snippets              = RedactItems(@),
        !.env_files             = RedactItems(@),
        !.shadow_entries        = Each(RedactShadow, @),
        !.redactions            = @
            \o AllOf(NotedFile, snap.config)
            \o NotedIn("firewall_zone", snap.firewall_zones)
            \o NotedIn("quadlet", snap.quadlet_units)
            \o AllOf(NotedGenerated, snap.generated_timer_units)
            \o AllOf(NotedTimer, snap.systemd_timers)
            \o NotedIn("snippet", snap.snippets)
            \o NotedIn("env_file", snap.env_files)
            \o AllOf(NotedShadow, snap.shadow_entries)]

\* scan_directory_for_secrets(): the patterns alone decide.
Objections(text) == Matching(text) \cup {match \in text.holds : match[1] \in {"comment", "harmless"}}
=============================================================================
