------------------------------ MODULE Settings ------------------------------
(***************************************************************************)
(* The host's settings as the plugin sees them (api.cpp, utils.cpp,        *)
(* dllmain.cpp): a table from keys to values.  A key is a counted string:  *)
(* two of them are equal only if their lengths are.                        *)
(***************************************************************************)
EXTENDS Integers

CONSTANTS
    Declared,   \* the string settings that DllMain adds
    Numbers,    \* the integer settings that DllMain adds
    Names,      \* every name that may be asked for
    Length,     \* UTF-16 units of a name
    Texts,      \* string values, each with its length in UTF-16 units and UTF-8 bytes
    GARBLED,    \* what comes of a conversion that does not fit its buffer
    ERROR

ASSUME NamesAssumption ==
    Declared \subseteq Names /\ Numbers \subseteq Names /\ Declared \intersect Numbers = {}
ASSUME LengthAssumption == Length \in [Names -> Nat \ {0}]
ASSUME TextsAssumption ==
    /\ Texts \subseteq [units : Nat, bytes : Nat]
    /\ \A t \in Texts : t.units <= t.bytes
    /\ ERROR \notin Texts

VARIABLE settings   \* by key and type, the value, or ERROR for none

-----------------------------------------------------------------------------
\* Slips in the code that the properties must notice (the mutants of
\* PROJECT.json); no specification uses them: a buffer with as many bytes as
\* there are units.

toStdString_Units(text) == IF text.bytes + 1 <= text.units THEN text ELSE GARBLED

\* A name as PhGetStringSetting and PhAddSettings take it, counted in bytes:
\* all but the terminator.
Key(name) == [name |-> name, length |-> 2 * Length[name]]

\* toPCPH_STRINGREF: the units, terminator included, times two bytes, times two.
AddedKey(name) == [name |-> name, length |-> 2 * 2 * (Length[name] + 1)]

\* toStdString: the buffer has as many bytes as the UTF-16 text; the text and
\* its terminator have to fit.
toStdString(text) == IF text.bytes + 1 <= 2 * text.units THEN text ELSE GARBLED

Slots ==
    {<<Key(n), t>> : n \in Names, t \in {"string", "integer"}}
        \union {<<AddedKey(n), t>> : n \in Names, t \in {"string", "integer"}}

\* DllMain: PhAddSettings, with "test", "path/to/.vscode/launch.json" and 0.
SettingsInit ==
    \E f \in [Declared -> {t \in Texts : t.units = t.bytes /\ t.units > 0}] :
        settings = [s \in Slots |->
            IF \E n \in Declared : s = <<Key(n), "string">> THEN f[s[1].name]
            ELSE IF \E n \in Numbers : s = <<Key(n), "integer">> THEN 0
            ELSE ERROR]

-----------------------------------------------------------------------------
StringSetting(name) == settings[<<Key(name), "string">>]
IntegerSetting(name) == settings[<<Key(name), "integer">>]

\* _PhGetStringSetting turns every exception of the lookup into NULL, and NULL
\* becomes an error.
GetStringSetting(name) ==
    IF StringSetting(name) = ERROR THEN ERROR ELSE toStdString(StringSetting(name))

\* _PhGetIntegerSetting overwrites the status of a failed lookup with success.
GetIntegerSetting(name) ==
    IF IntegerSetting(name) = ERROR THEN 0 ELSE IntegerSetting(name)

\* A setting that exists keeps its value.
AddSetting(type, name, value) ==
    settings' = [settings EXCEPT ![<<AddedKey(name), type>>] = IF @ = ERROR THEN value ELSE @]

\* The user edits a setting in the host's options.
Edit(name, type, value) ==
    /\ settings[<<Key(name), type>>] # ERROR
    /\ settings' = [settings EXCEPT ![<<Key(name), type>>] = value]
=============================================================================
