----------------------------- MODULE ImplicitTags -----------------------------
(***************************************************************************)
(* The tags that objects have without anyone giving them: their type,      *)
(* their owners and the users who favorited them.  Listeners keep them as  *)
(* objects are saved and deleted (superset/models/tags.py), the command    *)
(* sync_tags adds those of older objects (superset/common/tags.py), and    *)
(* users add tags to objects and remove them, of whatever name             *)
(* (superset/views/tags.py).                                               *)
(*                                                                         *)
(* The command's module imports `Metadata` from SQLAlchemy, which has a    *)
(* MetaData only (common/tags.py:17), so that it cannot be loaded as it    *)
(* stands; its steps are what its statements say, and a behaviour need not *)
(* take them.                                                              *)
(*                                                                         *)
(* A request and what its listeners do are one transaction and one action; *)
(* the three statements of sync_tags commit one by one.                    *)
(***************************************************************************)
EXTENDS Integers

CONSTANTS
  TagUsers,     \* users
  ObjectIds,    \* ids, from which every type of object has its own
  CustomNames,  \* names of tags that users make up
  Posted,       \* bound: the names, of whatever type, of the tags that users add
  MaxChanges,   \* bound on the number of steps
  NoOne         \* the creator of an object that was never there

Types == {"chart", "dashboard", "query"}
Object == Types \X ObjectIds
None == "none"

\* A tag has a name and one type; the name is unique.
TagName == ({"owner", "favorited_by"} \X TagUsers) \cup ({"type"} \X Types)
             \cup ({"custom"} \X CustomNames)

ASSUME TagsAssumption ==
  NoOne \notin TagUsers /\ MaxChanges \in Nat /\ Posted \subseteq TagName

VARIABLES
  objects,   \* the objects that exist
  owners,    \* the owners of each
  creator,   \* who created it (created_by_fk)
  favstars,  \* pairs of a user and an object
  tags,      \* the type of each tag name, or None when there is no such tag
  tagged,    \* pairs of a tag name and an object
  syncing,   \* the statements that sync_tags has executed
  heard,     \* history: the objects that were saved with the listeners on
  byHand,    \* history: pairs of a user and an object, whose owner tag was added or
             \* removed by a request since the object was last updated
  changes    \* number of steps so far

tagVars == <<objects, owners, creator, favstars, tags, tagged, syncing, heard, byHand, changes>>

Owner(u) == <<"owner", u>>
FavoritedBy(u) == <<"favorited_by", u>>
TypeTag(type) == <<"type", type>>

Count == changes < MaxChanges /\ changes' = changes + 1

-------------------------------------------------------------------------------
(* Listeners *)

\* get_tag looks for the name with its type; if that name has another type, the new
\* tag is not unique and the request fails.
Available(names, type) == \A n \in names : tags[n] \in {None, type}
get_tags(names, type) == [n \in TagName |-> IF n \in names THEN type ELSE tags[n]]

\* A query is owned by its user alone.
get_owners_ids(o, user, given) == IF o[1] = "query" THEN {user} ELSE given

\* Mutant: the owner tags of every object with that id are replaced.
OwnerTagsOf_any_type(o) == {t \in tagged : t[2][2] = o[2] /\ tags[t[1]] = "owner"}

OwnerTagsOf(o) == {t \in tagged : t[2] = o /\ tags[t[1]] = "owner"}

Insert(o, u, given) ==
  LET names == {Owner(w) : w \in get_owners_ids(o, u, given)} IN
  /\ Count
  /\ creator[o] = NoOne
  /\ objects' = objects \cup {o} /\ heard' = heard \cup {o}
  /\ creator' = [creator EXCEPT ![o] = u]
  /\ owners' = [owners EXCEPT ![o] = get_owners_ids(o, u, given)]
  /\ Available(names, "owner") /\ Available({TypeTag(o[1])}, "type")
  /\ tags' = [get_tags(names, "owner") EXCEPT ![TypeTag(o[1])] = "type"]
  /\ tagged' = tagged \cup {<<n, o>> : n \in names \cup {TypeTag(o[1])}}
  /\ UNCHANGED <<favstars, syncing, byHand>>

\* The owner tags are deleted and added again.
Update(o, given) ==
  LET names == {Owner(w) : w \in get_owners_ids(o, creator[o], given)} IN
  /\ Count
  /\ o \in objects
  /\ heard' = heard \cup {o}
  /\ byHand' = {b \in byHand : b[2] # o}
  /\ owners' = [owners EXCEPT ![o] = get_owners_ids(o, creator[o], given)]
  /\ Available(names, "owner")
  /\ tags' = get_tags(names, "owner")
  /\ tagged' = (tagged \ OwnerTagsOf(o)) \cup {<<n, o>> : n \in names}
  /\ UNCHANGED <<objects, creator, favstars, syncing>>

Delete(o) ==
  /\ Count
  /\ o \in objects
  /\ objects' = objects \ {o}
  /\ tagged' = {t \in tagged : t[2] # o}
  /\ UNCHANGED <<owners, creator, favstars, tags, syncing, heard, byHand>>

\* bulk_delete deletes by a query, for which no listener is called; before that the
\* owners of charts and dashboards are emptied, which is an update.
bulk_delete(o) ==
  /\ Count
  /\ o \in objects
  /\ objects' = objects \ {o}
  /\ tagged' = IF o[1] = "query" THEN tagged ELSE tagged \ OwnerTagsOf(o)
  /\ UNCHANGED <<owners, creator, favstars, tags, syncing, heard, byHand>>

\* Only charts and dashboards can be favorites, and they stay so when they are deleted.
favstar_select(u, o) ==
  /\ Count
  /\ o \in objects /\ o[1] # "query"
  /\ <<u, o>> \notin favstars
  /\ favstars' = favstars \cup {<<u, o>>}
  /\ Available({FavoritedBy(u)}, "favorited_by")
  /\ tags' = get_tags({FavoritedBy(u)}, "favorited_by")
  /\ tagged' = tagged \cup {<<FavoritedBy(u), o>>}
  /\ UNCHANGED <<objects, owners, creator, syncing, heard, byHand>>

\* The tag is deleted from every object that has the id, whatever its type.
favstar_unselect(u, o) ==
  /\ Count
  /\ <<u, o>> \in favstars
  /\ favstars' = favstars \ {<<u, o>>}
  /\ tagged' = {t \in tagged : ~ (/\ t[1] = FavoritedBy(u) /\ t[2][2] = o[2]
                                  /\ tags[t[1]] = "favorited_by")}
  /\ UNCHANGED <<objects, owners, creator, tags, syncing, heard, byHand>>

-------------------------------------------------------------------------------
(* Tags that users give *)

\* The type of a name is what stands before its colon, custom without one.
TypeOf(n) == n[1]

TouchedByHand(n, o) ==
  byHand' = IF TypeOf(n) = "owner" THEN byHand \cup {<<n[2], o>>} ELSE byHand

\* TagView.post; whether there is such an object is not asked.
post(o, n) ==
  /\ Count
  /\ Available({n}, TypeOf(n))
  /\ tags' = get_tags({n}, TypeOf(n))
  /\ tagged' = tagged \cup {<<n, o>>}
  /\ TouchedByHand(n, o)
  /\ UNCHANGED <<objects, owners, creator, favstars, syncing, heard>>

\* TagView.delete, of any tag that the object has
delete(o, n) ==
  /\ Count
  /\ <<n, o>> \in tagged
  /\ tagged' = tagged \ {<<n, o>>}
  /\ TouchedByHand(n, o)
  /\ UNCHANGED <<objects, owners, creator, favstars, tags, syncing, heard>>

-------------------------------------------------------------------------------
(* sync_tags *)

\* Tags that exist keep their type, the insertion of their name fails.
Inserted(names, type) ==
  [n \in TagName |-> IF n \in names /\ tags[n] = None THEN type ELSE tags[n]]

add_types ==
  /\ syncing = 0 /\ syncing' = 1
  /\ Count
  /\ tags' = Inserted({TypeTag(t) : t \in Types}, "type")
  /\ tagged' = tagged \cup {<<TypeTag(o[1]), o>> : o \in objects}
  /\ UNCHANGED <<objects, owners, creator, favstars, heard, byHand>>

\* The creator is taken for the owner.
add_owners ==
  /\ syncing = 1 /\ syncing' = 2
  /\ Count
  /\ tags' = Inserted({Owner(u) : u \in TagUsers}, "owner")
  /\ tagged' = tagged \cup {<<Owner(creator[o]), o>> : o \in objects}
  /\ UNCHANGED <<objects, owners, creator, favstars, heard, byHand>>

\* The tags of favorites are inserted with the type of types.  A chart is looked for
\* and tagged under the name that favorites have for it, which is no type of object:
\* charts stay as they are.
add_favorites ==
  /\ syncing = 2 /\ syncing' = 3
  /\ Count
  /\ tags' = Inserted({FavoritedBy(u) : u \in TagUsers}, "type")
  /\ tagged' = tagged \cup
       {<<FavoritedBy(f[1]), f[2]>> : f \in {x \in favstars : x[2][1] = "dashboard"}}
  /\ UNCHANGED <<objects, owners, creator, favstars, heard, byHand>>

-------------------------------------------------------------------------------
\* Objects that were saved before tags were enabled have none.
TagsInit ==
  /\ objects \in SUBSET ({"chart"} \X ObjectIds)
  /\ \E u \in TagUsers :
       creator = [o \in Object |-> IF o \in objects THEN u ELSE NoOne]
  /\ owners = [o \in Object |-> {creator[o]} \ {NoOne}]
  /\ favstars = {} /\ tagged = {} /\ heard = {} /\ byHand = {}
  /\ tags = [n \in TagName |-> None]
  /\ syncing = 0 /\ changes = 0

TagsNext ==
  \/ \E o \in Object :
       \/ \E u \in TagUsers, given \in SUBSET TagUsers : Insert(o, u, given)
       \/ \E given \in SUBSET TagUsers : Update(o, given)
       \/ Delete(o)
       \/ bulk_delete(o)
       \/ \E u \in TagUsers : favstar_select(u, o) \/ favstar_unselect(u, o)
       \/ \E n \in Posted : post(o, n)
       \/ \E n \in TagName : delete(o, n)
  \/ add_types
  \/ add_owners
  \/ add_favorites

TagsSpec == TagsInit /\ [][TagsNext]_tagVars

-------------------------------------------------------------------------------
(* Properties *)

TagsTypeOK ==
  /\ objects \subseteq Object /\ heard \subseteq Object
  /\ byHand \subseteq TagUsers \X Object
  /\ \A o \in objects : owners[o] \subseteq TagUsers /\ creator[o] \in TagUsers
  /\ \A n \in TagName : tags[n] \in {None, "type", "owner", "favorited_by", "custom"}
  /\ \A t \in tagged : t[1] \in TagName /\ t[2] \in Object /\ tags[t[1]] # None
  /\ syncing \in 0..3

\* models/tags.py:44-46: "implicit tags based on metadata: types, owners and who favorited
\* them. This way, user "alice" can find all their objects by querying for the tag
\* `owner:alice`."  An object that was saved with the listeners on is found by each of its
\* owners, and by no one else but, once tags are synchronized, the user who created it:
\* other than by a user whose tag was added or removed by hand since its last update, which
\* sets the tags right again.
OwnersFindTheirObjects ==
  \A o \in objects \cap heard : \A u \in TagUsers :
    <<u, o>> \notin byHand =>
      /\ u \in owners[o] => <<Owner(u), o>> \in tagged
      /\ <<Owner(u), o>> \in tagged
           => u \in owners[o] \/ (syncing > 1 /\ u = creator[o])
===============================================================================
