----------------------------- MODULE DeviceSettings -----------------------------
(* What awful.input sets (luaa.c, input.c): global defaults, and rules that       *)
(* overlay them for the devices they match.  Buttons and taps are written to      *)
(* libinput when something is set or a device appears; how a tool or a finger     *)
(* maps to the screen is resolved anew with each event.                           *)
(*                                                                                *)
(* Of the settings: tap_to_click stands for the whole numbers that start as       *)
(* "device default", dwtp for those the program forgets to start so, click_method *)
(* for the strings; the layout has one dimension.                                 *)
EXTENDS Integers, Sequences, SequencesExt, FiniteSets, FiniteSetsExt

CONSTANTS InputDevice, KindOf,\* input devices, and the type of each
          Rules, RuleLists,   \* rules, and what awful.input.rules may be set to
          Display,            \* outputs, numbered from the left
          Width,              \* of each
          Unset               \* no string

(* A region of a tablet is given by two of its 3 points, in either order; one of   *)
(* the layout by any two.  "torn" marks what parsing left, and is never given.     *)
ASSUME RulesAssumption ==
    \A r \in Rules : /\ DOMAIN r = {"type", "name", "tap", "dwtp", "click", "mode",
                                    "to", "from", "region", "bad"}
                     /\ r.to \in Seq(Nat) /\ r.bad # "torn"
                     /\ r.from \in {<<>>} \cup (0..2) \X (0..2)
                     /\ r.region \in {<<>>} \cup Int \X Int
ASSUME RuleListsAssumption == RuleLists \subseteq Seq(Rules)
ASSUME DisplayAssumption == Display \subseteq Nat /\ Display # {} /\ IsFiniteSet(Display)
ASSUME WidthAssumption == Width \in Nat

VARIABLES
    input,     \* globalconf.input: the defaults
    rules,     \* globalconf.input_rules
    asked,     \* the rules Lua set last
    device,    \* what libinput has of each plugged device
    enabled    \* outputs that are enabled
deviceVars == <<input, rules, asked, device, enabled>>

NotSet == -2
Number == {NotSet, -1, 0, 1}
Everywhere == 0   \* "*" in map_to_output
Tool == {"tablet-tool-pen", "tablet-tool-mouse"}
(* What a device comes with is no value that can be asked for.                     *)
AsMade == 9
Default == [there |-> TRUE, tap |-> AsMade, dwtp |-> AsMade, click |-> Unset]
Unplugged == [Default EXCEPT !.there = FALSE]

-----------------------------------------------------------------------------
(* Resolving.                                                                     *)
input_rule_matches(r, primary, tool, d) ==
    /\ r.type \in {"any", primary} \/ (tool # "any" /\ r.type \in {tool, "tablet-tool"})
    /\ r.name \in {"any", d}

(* Every field that is set in the rule takes the place of the one below it.       *)
Overlay(s, r) ==
    LET number(below, own) == IF own = NotSet THEN below ELSE own
        other(below, own)  == IF own = Unset THEN below ELSE own
    IN [tap |-> number(s.tap, r.tap), dwtp |-> number(s.dwtp, r.dwtp),
        click |-> other(s.click, r.click), mode |-> other(s.mode, r.mode),
        to |-> IF r.to = <<>> THEN s.to ELSE r.to,
        from |-> IF r.from = <<>> THEN s.from ELSE r.from,
        region |-> IF r.region = <<>> THEN s.region ELSE r.region]
resolve_input_settings(in, list, tool, d) ==
    LET after[i \in 0..Len(list)] ==
            IF i = 0 THEN in
            ELSE IF input_rule_matches(list[i], KindOf[d], tool, d) THEN Overlay(after[i - 1], list[i])
            ELSE after[i - 1]
    IN after[Len(list)]

(* A puck has no place on the tablet.                                             *)
resolve_tablet_settings(tool, d) ==
    LET s == resolve_input_settings(input, rules, tool, d)
    IN IF tool = "tablet-tool-mouse" THEN [s EXCEPT !.mode = "relative"] ELSE s

(* What is not set stays as the device has it.                                    *)
apply_input_settings_to_device(in, list, d, has) ==
    LET s == resolve_input_settings(in, list, "any", d)
    IN [there |-> TRUE,
        tap |-> IF KindOf[d] = "touchpad" /\ s.tap >= 0 THEN s.tap ELSE has.tap,
        dwtp |-> IF s.dwtp >= 0 THEN s.dwtp ELSE has.dwtp,
        click |-> IF s.click # Unset THEN s.click ELSE has.click]
(* Mutant: tablets and their pads are forgotten. *)
apply_to_pointers_and_touches(in, list) ==
    [d \in InputDevice |-> IF device[d] = Unplugged \/ KindOf[d] \notin {"touchpad", "pointer", "touch"}
                      THEN device[d] ELSE apply_input_settings_to_device(in, list, d, device[d])]
apply_input_settings_to_all_devices(in, list) ==
    [d \in InputDevice |-> IF device[d] = Unplugged THEN Unplugged
                      ELSE apply_input_settings_to_device(in, list, d, device[d])]

-----------------------------------------------------------------------------
(* Mapping: a point is t of 2 parts of the way across the device.                 *)
Area(o) == IF o \in enabled THEN <<Width * (o - 1), Width * o>> ELSE <<0, 0>>
Layout == <<Width * (Min(enabled) - 1), Width * Max(enabled)>>
Across(box, t) == box[1] + (t * (box[2] - box[1])) \div 2

single_enabled_monitor == IF Cardinality(enabled) = 1 THEN enabled ELSE {}
(* The first output of the list that is there, up to a "*"; else the only one.    *)
Target(to) ==
    LET listed == SelectInSeq(to, LAMBDA c : c = Everywhere \/ c \in Display)
    IN IF listed # 0 /\ to[listed] # Everywhere THEN {to[listed]} ELSE single_enabled_monitor
Bounds(s) ==
    IF s.region # <<>> /\ s.region[1] # s.region[2] THEN s.region
    ELSE IF Target(s.to) # {} THEN Area(CHOOSE o \in Target(s.to) : TRUE) ELSE Layout
input_map_coords(s, t) == Across(Bounds(s), t)

(* A part of the tablet may be stretched over the target; the rest clings to it.  *)
tablet_map_coords(s, t) ==
    IF s.from = <<>> \/ s.from[1] = s.from[2] THEN input_map_coords(s, t)
    ELSE LET cut == IF s.from[1] < s.from[2] THEN (2 * (t - s.from[1])) \div (s.from[2] - s.from[1])
                    ELSE (2 * (s.from[1] - t)) \div (s.from[1] - s.from[2])
         IN input_map_coords(s, Max({0, Min({2, cut})}))

-----------------------------------------------------------------------------
DeviceInit ==
    /\ input = [tap |-> -1, dwtp |-> 0, click |-> Unset, mode |-> Unset,
                to |-> <<>>, from |-> <<>>, region |-> <<>>]
    /\ rules = <<>> /\ asked = <<>>
    /\ device = [d \in InputDevice |-> Unplugged]
    /\ enabled = Display

(* awful.input.<key> = value.                                                     *)
set_input_setting(key, value) ==
    LET in == [input EXCEPT ![key] = value]
    IN /\ input' = in
       /\ device' = apply_input_settings_to_all_devices(in, rules)
       /\ UNCHANGED <<rules, asked, enabled>>

(* What is in the array where parsing stops at a field that is refused: the fields*)
(* before it, nothing after it, and zeros for the rules after this one.           *)
Half(r) ==
    LET from == IF r.bad \in {"mode", "to", "from"} THEN <<>> ELSE r.from
        to   == IF r.bad \in {"mode", "to"} THEN <<>> ELSE r.to
    IN [r EXCEPT !.bad = "torn", !.region = <<>>, !.from = from, !.to = to,
                 !.mode = IF r.bad = "mode" THEN Unset ELSE r.mode]
Zeros == [type |-> "any", name |-> "any", tap |-> 0, dwtp |-> 0, click |-> Unset, mode |-> Unset,
          to |-> <<>>, from |-> <<>>, region |-> <<>>, bad |-> "no"]

(* awful.input.rules = list: the old rules are gone before the new ones are read. *)
set_input_rules(list) ==
    LET stop == SelectInSeq(list, LAMBDA r : r.bad # "no")
    IN /\ asked' = list
       /\ IF stop = 0
          THEN /\ rules' = list
               /\ device' = apply_input_settings_to_all_devices(input, list)
          ELSE /\ rules' = [i \in DOMAIN list |->
                              IF i < stop THEN list[i] ELSE IF i = stop THEN Half(list[i]) ELSE Zeros]
               /\ UNCHANGED device
       /\ UNCHANGED <<input, enabled>>

(* createpointer(), createtouch(), createtablet(), createtabletpad().             *)
PlugIn(d) ==
    /\ device[d] = Unplugged
    /\ device' = [device EXCEPT ![d] = apply_input_settings_to_device(input, rules, d, Default)]
    /\ UNCHANGED <<input, rules, asked, enabled>>
PullOut(d) ==
    /\ device[d] # Unplugged
    /\ device' = [device EXCEPT ![d] = Unplugged]
    /\ UNCHANGED <<input, rules, asked, enabled>>

Enable(some) ==
    /\ enabled' = some
    /\ UNCHANGED <<input, rules, asked, device>>

DeviceNext ==
    \/ \E v \in Number \ {NotSet} : set_input_setting("tap", v)
    \/ \E v \in {Unset, "areas"} : set_input_setting("click", v)
    \/ \E list \in RuleLists : set_input_rules(list)
    \/ \E d \in InputDevice : PlugIn(d) \/ PullOut(d)
    \/ \E some \in (SUBSET Display) \ {{}} : Enable(some)

DeviceSpec == DeviceInit /\ [][DeviceNext]_deviceVars

DeviceTypeOK ==
    /\ input.tap \in Number /\ input.dwtp \in Number
    /\ asked \in RuleLists \cup {<<>>} /\ Len(rules) = Len(asked)
    /\ enabled \in (SUBSET Display) \ {{}}
    /\ \A d \in InputDevice : device[d].there \/ device[d] = Unplugged

-----------------------------------------------------------------------------
(* Whatever was set and plugged in whatever order, each device has what the last  *)
(* rule that matches it says, and what the defaults say where no rule does.       *)
DevicesFollow ==
    rules = asked =>
        \A d \in InputDevice : device[d] # Unplugged =>
            LET says(key, none) ==
                  LET by == {i \in DOMAIN asked :
                               /\ asked[i].type \in {"any", KindOf[d]} /\ asked[i].name \in {"any", d}
                               /\ asked[i][key] # none}
                  IN IF by = {} THEN input[key] ELSE asked[Max(by)][key]
            IN /\ KindOf[d] = "touchpad" /\ says("tap", NotSet) >= 0 => device[d].tap = says("tap", NotSet)
               /\ says("dwtp", NotSet) >= 0 => device[d].dwtp = says("dwtp", NotSet)
               /\ says("click", Unset) # Unset => device[d].click = says("click", Unset)

(* A finger or a tool reaches no point off what it is mapped to, and both ends of *)
(* it but where a name leads to an output that is disabled.                       *)
PointsStayOnTarget ==
    \A d \in InputDevice : KindOf[d] = "tablet" => \A tool \in Tool :
        LET s == resolve_tablet_settings(tool, d)
            on == Bounds(s)
            reached == {tablet_map_coords(s, t) : t \in 0..2}
            Ends == {Min({on[1], on[2]}), Max({on[1], on[2]})}
            lost == \E i \in DOMAIN s.to : s.to[i] \in Display \ enabled
        IN /\ reached \subseteq Min(Ends)..Max(Ends)
           /\ Ends \subseteq reached
           /\ s.region = <<>> /\ ~lost => \E o \in enabled : on = Area(o) \/ on = Layout
=================================================================================
