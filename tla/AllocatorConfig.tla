--------------------------- MODULE AllocatorConfig ---------------------------
(* SUPAAllocatorConfig: the settings of the allocators, parsed from the      *)
(* environment when first used and again by every setAllocatorSettings.      *)
(* The input is the list of tokens lexArgs makes; parseArgs assigns each     *)
(* setting as soon as it has read it, so an error leaves the settings        *)
(* before it assigned.                                                       *)
EXTENDS Integers, Sequences, FiniteSets

CONSTANTS
    kLargeBufferMb,     \* kLargeBuffer in megabytes
    Numbers,            \* numbers that may be written, in the units of the option
    True, False, Word,  \* the other tokens a value may be
    MaxSize, Unset,     \* the largest size_t; no value given
    pinned_max_register_threads

ConfigAssumption ==
    /\ kLargeBufferMb \in Nat /\ Numbers \subseteq Nat /\ Unset \notin Numbers \cup {True, False}
    /\ pinned_max_register_threads \in Nat \ {0}

Default == [max_split_size |-> MaxSize, max_non_split_rounding_size |-> kLargeBufferMb,
            garbage_collection_threshold |-> 0, expandable_segments |-> FALSE,
            release_lock_on_supamalloc |-> FALSE, pinned_use_supa_host_register |-> FALSE,
            pinned_num_register_threads |-> 1]

Options == DOMAIN Default

Flags == {"expandable_segments", "release_lock_on_supamalloc", "pinned_use_supa_host_register"}

\* An option with what follows it: whether a colon is there, the value, and
\* what comes next: a comma, the end of the string, or something else.
Items == [option : Options \cup {"unknown"}, colon : BOOLEAN,
          value : Numbers \cup {True, False, Word, Unset},
          next : {"comma", "end", "other"}]

VARIABLES
    settings,    \* the members of the instance
    given,       \* the last value this string gave to each option
    last,        \* the last value any string gave to each option
    status       \* "ready", "parsing", "done" or "error"

vars == <<settings, given, last, status>>

NothingGiven == [o \in Options |-> Unset]

Init ==
    settings = Default /\ given = NothingGiven /\ last = NothingGiven /\ status = "ready"

\* Mutant: what the string does not mention keeps its value.
Reset_Nothing(s) == s

\* The settings parseArgs starts from
Reset(s) == [s EXCEPT !.max_split_size = MaxSize, !.garbage_collection_threshold = 0]

\* parseArgs is called, with a string that is empty or not.
parseArgs(empty) ==
    /\ status # "parsing"
    /\ settings' = Reset(settings) /\ given' = NothingGiven /\ UNCHANGED last
    /\ status' = IF empty THEN "done" ELSE "parsing"

IsPowerOf2(n) == \E k \in 0 .. n : n = 2^k

\* The value an option accepts: stoi, stod or a comparison with True and False,
\* and the TORCH_CHECKs.  The threshold is given in hundredths.
Accepts(option, v) ==
    \/ /\ option \in {"max_split_size", "max_non_split_rounding_size"}
       /\ v \in Numbers /\ v > kLargeBufferMb
    \/ /\ option = "garbage_collection_threshold"
       /\ v \in Numbers /\ v > 0 /\ v < 100
    \/ /\ option = "pinned_num_register_threads"
       /\ v \in Numbers /\ IsPowerOf2(v) /\ v <= pinned_max_register_threads
    \/ option \in Flags /\ v \in {True, False}

\* What is stored.  release_lock_on_supamalloc compares the option's name with
\* "True", so it stores FALSE whatever the value.
Stored(option, v) ==
    IF option \in Flags
    THEN option # "release_lock_on_supamalloc" /\ v = True
    ELSE v

\* One turn of the loop: the option, its colon and value, then the comma.
parse_option(item) ==
    /\ status = "parsing"
    /\ LET good == item.option \in Options /\ item.colon /\ Accepts(item.option, item.value)
       IN  /\ settings' = IF good
                          THEN [settings EXCEPT ![item.option] = Stored(item.option, item.value)]
                          ELSE settings
           /\ given' = IF good THEN [given EXCEPT ![item.option] = item.value] ELSE given
           /\ last' = IF good THEN [last EXCEPT ![item.option] = item.value] ELSE last
           /\ status' = IF ~good \/ item.next = "other" THEN "error"
                        ELSE IF item.next = "end" THEN "done" ELSE "parsing"

Next ==
    \/ \E empty \in BOOLEAN : parseArgs(empty)
    \/ \E item \in Items : parse_option(item)

Spec == Init /\ [][Next]_vars

-----------------------------------------------------------------------------
(* Properties.                                                             *)

\* The options of which every string starts again from the default
PerString == {"max_split_size", "garbage_collection_threshold"}

\* The value an option should have: what the string says last, or the default,
\* for the options every string starts again; for the others what the last
\* string that names them says, however many strings ago, or the default.
InEffect(o) ==
    LET v == IF o \in PerString THEN given[o] ELSE last[o]
    IN  IF v = Unset THEN Default[o] ELSE IF o \in Flags THEN v = True ELSE v

\* Every setting but one is the one in effect, at any time: while a string is
\* read, after it, and after an error in the middle of it.  The exception is
\* release_lock_on_supamalloc, which stays FALSE whatever a string says.
AllocatorSettingsFollow ==
    \A o \in Options :
        settings[o] = IF o = "release_lock_on_supamalloc" THEN FALSE ELSE InEffect(o)

\* Whatever strings are given, with errors in them or not, the settings are
\* values the allocators are safe with: a split size above kLargeBuffer, and a
\* number of threads that divides every range of pages.
SettingsUsable ==
    /\ settings.max_split_size = MaxSize \/ settings.max_split_size > kLargeBufferMb
    /\ settings.max_non_split_rounding_size >= kLargeBufferMb
    /\ IsPowerOf2(settings.pinned_num_register_threads)
    /\ settings.pinned_num_register_threads <= pinned_max_register_threads

\* What the source promises and AllocatorSettingsFollow contradicts.

\* "If empty, set the default values": an empty string leaves five of the seven
\* settings as the strings before it made them.
EmptyMeansDefault == status = "done" /\ given = NothingGiven => settings = Default

\* The error text promises "a single True/False argument for
\* release_lock_on_supamalloc": True is accepted and so should be in effect.
LockSettingApplied ==
    status = "done" /\ given.release_lock_on_supamalloc # Unset =>
        settings.release_lock_on_supamalloc = (given.release_lock_on_supamalloc = True)

-----------------------------------------------------------------------------
(* The inductive invariant.                                                *)

\* The settings follow the strings, and are usable.
ConfigInv ==
    /\ settings = [o \in Options |-> settings[o]] /\ given = [o \in Options |-> given[o]]
    /\ last = [o \in Options |-> last[o]]
    /\ AllocatorSettingsFollow
    /\ SettingsUsable

=============================================================================
