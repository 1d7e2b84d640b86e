-------------------------------- MODULE Tags --------------------------------
(* Which windows are on which tags (objects/tag.c, luaA_client_tags() and the *)
(* end of a client in objects/client.c), and who is shown for it (banning.c). *)
(*                                                                            *)
(* Taking a client off a tag tells Lua, between two rounds of loops over the   *)
(* list of tags; Lua deletes a volatile tag when its last client goes          *)
(* (lua/awful/tag.lua), and the list moves under the loop.  Tags are of one      *)
(* screen, and all clients are seen there when one of their tags is.           *)
EXTENDS Naturals, Sequences, SequencesExt, FiniteSetsExt

CONSTANTS Client,
          Tag,         \* a range of numbers: a new tag is the least that is free
          Volatile     \* the tags that Lua deletes when they are empty

ASSUME ClientAssumption == IsFiniteSet(Client)

VARIABLES
    tags,       \* globalconf.tags: those that are activated
    selected,
    members,    \* how often a client is in each tag's list
    tagrefs,    \* how often each tag is referenced
    managed,    \* globalconf.clients
    banned,     \* the clients that are hidden for their tags
    lazy,       \* globalconf.need_lazy_banning
    taking,     \* the loop that takes a client off tags
    missed      \* history: the pairs a loop passed over, as the list had moved
tagVars == <<tags, selected, members, tagrefs, managed, banned, lazy, taking, missed>>

NoTask == [for |-> "none", on |-> {}, want |-> {}, i |-> 0]
NoneTaken == taking = NoTask
Active == ToSet(tags)
Tagged(c, t) == members[t][c] > 0
Ones(s)  == [c \in Client |-> IF c \in s THEN 1 ELSE 0]
Clients(t) == {c \in Client : Tagged(c, t)}
client_on_selected_tags(c) == \E t \in Active \cap selected : Tagged(c, t)

TagInit ==
    /\ tags = <<>> /\ selected = {} /\ members = [t \in Tag |-> Ones({})] /\ tagrefs = [t \in Tag |-> 0]
    /\ managed = {} /\ banned = {} /\ lazy = FALSE /\ taking = NoTask /\ missed = {}

-----------------------------------------------------------------------------
(* Clients that come on tags; a tag holds a client once, and is referenced.     *)
is_client_tagged(c, t) == Tagged(c, t)
tag_client(c, ts) ==
    LET fresh == {t \in ts : ~is_client_tagged(c, t)}
    IN /\ members' = [t \in Tag |-> IF t \in fresh THEN [members[t] EXCEPT ![c] = @ + 1] ELSE members[t]]
       /\ tagrefs' = [t \in Tag |-> IF t \in fresh THEN tagrefs[t] + 1 ELSE tagrefs[t]]

(* A new window has the tags of its parent, or those that are selected.         *)
Manage(c) ==
    /\ NoneTaken /\ c \notin managed /\ \A t \in Tag : ~Tagged(c, t)
    /\ \E ts \in {Active \cap selected} \cup {{t \in Active : Tagged(p, t)} : p \in managed} :
           tag_client(c, ts)
    /\ managed' = managed \cup {c} /\ banned' = banned \ {c} /\ lazy' = TRUE
    /\ UNCHANGED <<tags, selected, taking, missed>>

-----------------------------------------------------------------------------
(* A tag is deactivated by tag:delete() of Lua, which selects another one when   *)
(* none is left.  A loop at index i goes on with the one after the next.         *)
Deactivated(t, i) ==
    LET rest == RemoveAt(tags, CHOOSE j \in DOMAIN tags : tags[j] = t)
        left == selected \ {t}
    IN /\ tags' = rest
       /\ selected' \in IF left = {} /\ rest # <<>> THEN {{u} : u \in ToSet(rest)} ELSE {left}
       /\ missed' = {p \in missed : p[2] # t}
                    \cup {p \in taking.on \X Active :
                             i < Len(tags) /\ p[2] = tags[i + 1] /\ Tagged(p[1], p[2])}

(* Mutant: the visibility of the client is not brought up to date.               *)
untag_client_quiet(c, t, i) ==
    /\ members' = [members EXCEPT ![t][c] = @ - 1] /\ tagrefs' = [tagrefs EXCEPT ![t] = @ - 1]
    /\ UNCHANGED <<lazy, tags, selected, missed>>

(* untag_client(): the reference goes when Lua has heard of it.                  *)
untag_client(c, t, i) ==
    /\ members' = [members EXCEPT ![t][c] = @ - 1]
    /\ lazy' = TRUE
    /\ IF t \in Volatile \cap Active /\ members[t] = Ones({c})
       THEN Deactivated(t, i) /\ tagrefs' = [tagrefs EXCEPT ![t] = @ - 2]
       ELSE tagrefs' = [tagrefs EXCEPT ![t] = @ - 1] /\ UNCHANGED <<tags, selected, missed>>

Unused(t) == t \notin Active /\ Clients(t) = {} /\ tagrefs[t] = 0
luaA_tag_set_activated(t) ==
    /\ NoneTaken /\ Unused(t) /\ \A u \in Tag : Unused(u) => t <= u
    /\ tags' = Append(tags, t) /\ tagrefs' = [tagrefs EXCEPT ![t] = 1]
    /\ UNCHANGED <<selected, members, managed, banned, lazy, taking, missed>>

(* tag:delete(), when each of its clients has another tag: they stay on it.      *)
Delete(t) ==
    /\ NoneTaken /\ t \in Active
    /\ \A c \in Clients(t) : \E u \in Active \ {t} : Tagged(c, u)
    /\ Deactivated(t, 0) /\ tagrefs' = [tagrefs EXCEPT ![t] = @ - 1]
    /\ lazy' = (lazy \/ t \in selected \/ selected' # selected)
    /\ UNCHANGED <<members, managed, banned, taking>>

tag_view(t, view) ==
    /\ NoneTaken /\ t \in Active /\ view # (t \in selected)
    /\ selected' = IF view THEN selected \cup {t} ELSE selected \ {t}
    /\ lazy' = TRUE
    /\ UNCHANGED <<tags, members, tagrefs, managed, banned, taking, missed>>

-----------------------------------------------------------------------------
(* c:tags(want), and the end of a client, run through the list.                  *)
luaA_client_tags(c, want) ==
    /\ NoneTaken /\ c \in managed
    /\ taking' = [for |-> "tags", on |-> {c}, want |-> want, i |-> 1]
    /\ missed' = {p \in missed : p[1] # c}
    /\ UNCHANGED <<tags, selected, members, tagrefs, managed, banned, lazy>>
client_unmanage(c) ==
    /\ NoneTaken /\ c \in managed /\ managed' = managed \ {c}
    /\ taking' = [for |-> "unmanage", on |-> {c}, want |-> {}, i |-> 1]
    /\ missed' = {p \in missed : p[1] # c} /\ banned' = banned \ {c}
    /\ UNCHANGED <<tags, selected, members, tagrefs, lazy>>
Round ==
    /\ taking.for \in {"tags", "unmanage"} /\ taking.i <= Len(tags)
    /\ LET t == tags[taking.i]
           c == CHOOSE x \in taking.on : TRUE
       IN IF t \notin taking.want /\ is_client_tagged(c, t) THEN untag_client(c, t, taking.i)
          ELSE UNCHANGED <<tags, selected, members, tagrefs, lazy, missed>>
    /\ taking' = [taking EXCEPT !.i = @ + 1]
    /\ UNCHANGED <<managed, banned>>
TagAll ==
    /\ taking.for = "tags" /\ taking.i > Len(tags)
    /\ \A c \in taking.on : /\ tag_client(c, taking.want)
                          /\ lazy' = (lazy \/ taking.want \ {t \in Tag : Tagged(c, t)} # {})
    /\ taking' = [taking EXCEPT !.for = "done"]
    /\ UNCHANGED <<tags, selected, managed, banned, missed>>
TagReturn ==
    /\ taking.for = "done" \/ (taking.for = "unmanage" /\ taking.i > Len(tags))
    /\ taking' = NoTask
    /\ UNCHANGED <<tags, selected, members, tagrefs, managed, banned, lazy, missed>>

(* tag:clients(want): the others go first, and with the last the tag may.        *)
luaA_tag_clients(t, want) ==
    /\ NoneTaken /\ t \in Active
    /\ LET off   == Clients(t) \ want
           fresh == want \ Clients(t)
           goes  == t \in Volatile /\ off # {} /\ off = Clients(t)
       IN /\ members' = [members EXCEPT ![t] =
                             [c \in Client |-> IF c \in off THEN 0 ELSE IF c \in fresh THEN 1 ELSE @[c]]]
          /\ tagrefs' = [tagrefs EXCEPT ![t] =
                          @ + Cardinality(fresh) - Cardinality(off) - IF goes THEN 1 ELSE 0]
          /\ IF goes THEN Deactivated(t, 0) ELSE UNCHANGED <<tags, selected, missed>>
          /\ lazy' = (lazy \/ off \cup fresh # {})
    /\ UNCHANGED <<managed, banned, taking>>

-----------------------------------------------------------------------------
banning_refresh ==
    /\ NoneTaken /\ lazy /\ lazy' = FALSE
    /\ banned' = {c \in managed : ~client_on_selected_tags(c)}
    /\ UNCHANGED <<tags, selected, members, tagrefs, managed, taking, missed>>

(* All of it dies with the state; what was managed is managed anew.              *)
luaA_state_drop_object_pointers ==
    /\ NoneTaken /\ tags' = <<>> /\ selected' = {} /\ managed' = {} /\ banned' = {} /\ missed' = {}
    /\ members' = [t \in Tag |-> Ones({})] /\ tagrefs' = [t \in Tag |-> 0]
    /\ UNCHANGED <<lazy, taking>>

TagNext ==
    \/ \E c \in Client : Manage(c) \/ client_unmanage(c)
    \/ \E c \in Client, want \in SUBSET Active : luaA_client_tags(c, want)
    \/ \E t \in Tag, want \in SUBSET managed : luaA_tag_clients(t, want)
    \/ \E t \in Tag : luaA_tag_set_activated(t) \/ Delete(t)
    \/ \E t \in Tag, view \in BOOLEAN : tag_view(t, view)
    \/ Round \/ TagAll \/ TagReturn \/ banning_refresh \/ luaA_state_drop_object_pointers

TagSpec == TagInit /\ [][TagNext]_tagVars

-----------------------------------------------------------------------------
TagTypeOK ==
    /\ ToSet(tags) \cup selected \subseteq Tag /\ members \in [Tag -> [Client -> 0..2]]
    /\ tagrefs \in [Tag -> 0..(Cardinality(Client) + 1)] /\ managed \cup banned \subseteq Client
    /\ lazy \in BOOLEAN /\ missed \subseteq Client \X Tag

(* A tag is referenced once for the list it is in and once for each client.      *)
TagsAreHeld ==
    \A t \in Tag :
        /\ \A c \in Client : members[t][c] <= 1
        /\ tagrefs[t] = Cardinality(Clients(t)) + IF t \in Active THEN 1 ELSE 0

(* An activated tag holds clients that are managed, or are just going; a client   *)
(* that has gone is left only where a loop passed over the tag.                   *)
TagsHoldTheManaged ==
    \A t \in Active : \A c \in Clients(t) :
        c \in managed \cup taking.on \/ <<c, t>> \in missed

(* "A table with tags to set": these and no others, but those passed over.        *)
TagsAreAsAsked ==
    taking.for = "done" =>
        \A c \in taking.on :
            /\ \A t \in taking.want : Tagged(c, t)
            /\ \A t \in Active \ taking.want : Tagged(c, t) => <<c, t>> \in missed

(* Once no update is due, the clients that are hidden are those of no tag that is *)
(* seen, whatever tagged, selected, deleted or managed them.                      *)
BansFollowTags == NoneTaken /\ ~lazy => banned = {c \in managed : ~client_on_selected_tags(c)}

(* The lists of clients, the references and what is hidden agree with what was    *)
(* asked for, through loops that Lua changes the list of tags under.              *)
TagsSound == TagsAreHeld /\ TagsHoldTheManaged /\ TagsAreAsAsked /\ BansFollowTags
=============================================================================
