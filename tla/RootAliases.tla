----------------------------- MODULE RootAliases -----------------------------
(***************************************************************************)
(* The names below "/" (fs.go: buildRootAliases and what uses it).  EVS    *)
(* names a device's folder by an id; WebDAV shows the device's own name,   *)
(* where that is unambiguous.  A name is one component of a path.          *)
(*                                                                         *)
(* A root is a listing of "/": the names of its nodes, and for those that  *)
(* are devices the name of the device, trimmed.                            *)
(***************************************************************************)

CONSTANT
  Valid        \* the names that validAlias accepts

IsRoot(root) == DOMAIN root.device \subseteq root.nodes

Devices(root) == DOMAIN root.device

(* The name to display, if it can be: TrimSpace(node.Device.Name).         *)
Wanted(root, raw) == IF root.device[raw] = "" THEN raw ELSE root.device[raw]

(* candidateCounts[display] = 1 *)
Unique(root, raw) ==
  \A other \in Devices(root) : Wanted(root, other) = Wanted(root, raw) => other = raw

(* Every name of the listing is `reserved'. *)
Reserved(root, name) == name \in root.nodes

(* aliases.rawToDisplay *)
rawToDisplay(root) ==
  [raw \in Devices(root) |->
     IF /\ Wanted(root, raw) \in Valid
        /\ Unique(root, raw)
        /\ ~Reserved(root, Wanted(root, raw))
     THEN Wanted(root, raw) ELSE raw]

Displayed(root) == {rawToDisplay(root)[raw] : raw \in Devices(root)}

(* aliases.displayToRaw; by AliasesAreInjective there is no choice. *)
displayToRaw(root) ==
  [display \in Displayed(root) |->
     CHOOSE raw \in Devices(root) : rawToDisplay(root)[raw] = display]

(* translateRootRawToDisplay and translateRootDisplayToRaw, of a path's    *)
(* first component.                                                        *)
Expose(root, raw) ==
  IF raw \in Devices(root) THEN rawToDisplay(root)[raw] ELSE raw
Resolve(root, display) ==
  IF display \in Displayed(root) THEN displayToRaw(root)[display] ELSE display

(* isProtectedRootRenamePath: what is renamed is a device's folder itself  *)
(* (oldTop), and not to another name of the same folder.                   *)
Protected(root, old, oldTop, new, newTop) ==
  /\ oldTop
  /\ Resolve(root, old) \in Devices(root)
  /\ Resolve(root, old) # Resolve(root, new) \/ ~newTop

=============================================================================
