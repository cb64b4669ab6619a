------------------------------- MODULE Settings -----------------------------
(***************************************************************************)
(* The settings kept in the vault: what the editor can make of a draft     *)
(* (src/src/settings.rs), what may be saved and loaded, and how a command  *)
(* line is expanded (src/src/config.rs).                                   *)
(*                                                                         *)
(* Every on/off field is a member of flags; of the fields with a range of  *)
(* numbers only the refresh interval is kept, 0 standing for unset; all    *)
(* built-in networks are one; an alias stands for a single command.        *)
(***************************************************************************)
EXTENDS Integers, SequencesExt, FiniteSetsExt

CONSTANTS
    Flags,        \* the on/off fields, among them "Cache" and "Fetch"
    Pins, NoPin,  \* hashes a custom network may be pinned to, and None
    Intervals,    \* numbers that may be typed as the refresh interval
    MinInterval,  \* the smallest one accepted, 10
    WalletNames,  \* valid names for the list of history wallets
    MaxWallets,   \* its length, at most 16
    AliasNames,   \* valid names that are no commands
    Words,        \* the commands of PLUGINS
    Targets,     \* what the user makes aliases for
    MaxAliases,   \* at most 64 of them
    MaxSize       \* 64 KiB, in wallets and aliases

ASSUME SettingsAssumption ==
    /\ {"Cache", "Fetch"} \subseteq Flags
    /\ NoPin \notin Pins
    /\ Intervals \subseteq Nat \ {0} /\ MinInterval \in Nat \ {0}
    /\ AliasNames \cap Words = {} /\ Targets \subseteq Words
    /\ MaxWallets \in Nat /\ MaxAliases \in Nat /\ MaxSize \in Nat

\* Config::default.
Default == [flags |-> {}, cluster |-> "built-in", pin |-> NoPin,
            interval |-> 0, wallets |-> <<>>, aliases |-> <<>>]

IsConfig(s) ==
    /\ DOMAIN s = DOMAIN Default
    /\ s.flags \subseteq Flags
    /\ s.cluster \in {"built-in", "custom"} /\ s.pin \in Pins \cup {NoPin}
    /\ s.interval \in Intervals \cup {0}
    /\ s.wallets \in Seq(WalletNames)
    /\ DOMAIN s.aliases \subseteq AliasNames
    /\ \A a \in DOMAIN s.aliases : s.aliases[a] \in Targets

Caches(s) == "Cache" \in s.flags

\* check_size: the length of the encoded settings.
Size(s) == Len(s.wallets) + Cardinality(DOMAIN s.aliases)

\* expected_genesis: a custom network needs a hash; a built-in one has its
\* own, and no operation sets another.
GenesisKnown(s) == s.cluster = "custom" <=> s.pin # NoPin

\* validate.
Valid(s) ==
    /\ GenesisKnown(s)
    /\ s.interval = 0 \/ s.interval >= MinInterval
    /\ Len(s.wallets) <= MaxWallets
    /\ Cardinality(DOMAIN s.aliases) <= MaxAliases

\* What decode demands of the settings in a vault.
Decodable(s) == Valid(s) /\ Size(s) <= MaxSize

\* Mutation of Savable: only the single entries have been validated.
SavableUnchecked(s) == Size(s) <= MaxSize

\* What edit, commit and encode let pass.
Savable(s) == Decodable(s)

-----------------------------------------------------------------------------
(* The menus of the editor.  An entry that is refused leaves the draft.    *)

\* Field::set.  Another network has another hash; the hash of a built-in
\* network is read-only.
FieldSettings(s) ==
    {[s EXCEPT !.flags = @ \cup {f}] : f \in Flags}
    \cup {[s EXCEPT !.flags = @ \ {f}] : f \in Flags}
    \cup {[s EXCEPT !.cluster = c, !.pin = NoPin]
             : c \in {"built-in", "custom"} \ {s.cluster}}
    \cup {[s EXCEPT !.pin = h]
             : h \in IF s.cluster = "custom" THEN Pins \cup {NoPin} ELSE {}}
    \cup {[s EXCEPT !.interval = n]
             : n \in {0} \cup {m \in Intervals : m >= MinInterval}}

\* edit_group.
FieldEdits(s) == {t \in FieldSettings(s) : Size(t) <= MaxSize}

\* The list without a name: retain.
Retained(ws, name) ==
    FoldLeft(LAMBDA kept, w : IF w # name THEN Append(kept, w) ELSE kept,
             <<>>, ws)

\* edit_wallets, before the size is checked: clear, remove, add.
WalletEdits(s) ==
    {[s EXCEPT !.wallets = <<>>]}
    \cup {[s EXCEPT !.wallets = Retained(@, name)]
             : name \in WalletNames}
    \cup {[s EXCEPT !.wallets = Append(@, name)]
             : name \in {w \in WalletNames :
                           /\ \A i \in DOMAIN s.wallets : s.wallets[i] # w
                           /\ Len(s.wallets) < MaxWallets}}

\* The aliases with a set to word, and without it.
WithAlias(s, a, word) ==
    [s EXCEPT !.aliases =
        [b \in DOMAIN @ \cup {a} |-> IF b = a THEN word ELSE @[b]]]
WithoutAlias(s, a) ==
    [s EXCEPT !.aliases = [b \in DOMAIN @ \ {a} |-> @[b]]]

\* edit_aliases: the aliases alone are validated, and the size of all.
AliasEdits(s) ==
    {t \in {WithoutAlias(s, a) : a \in AliasNames}
           \cup {WithAlias(s, a, w) : a \in AliasNames, w \in Targets} :
        Cardinality(DOMAIN t.aliases) <= MaxAliases /\ Size(t) <= MaxSize}

\* expand_alias: the first word only, and once.
Expanded(s, word) == IF word \in DOMAIN s.aliases THEN s.aliases[word] ELSE word
=============================================================================
