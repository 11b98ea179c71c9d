-------------------------------- MODULE Tabs --------------------------------
(***************************************************************************)
(* The lists of the tabs: likes and saves on the lists of posts, the lists *)
(* a user pages of what is theirs, and the saved posts as they are read    *)
(* and laid out.  The lists of posts and the others share no state; the    *)
(* saved posts are followed once for what is pressed on them and once for  *)
(* how they are read, and a toggle changes no row of a page that is not    *)
(* loaded yet.  A behaviour follows one of the three.                      *)
(***************************************************************************)
EXTENDS PostLists, Galleries, Wall

VARIABLE pane   \* the part that is followed

tabsVars == <<postVars, galleryVars, wallVars, pane>>

TabsInit ==
  /\ PostsInit /\ pane \in {"posts", "own", "wall"}
  /\ GalleryInit /\ (pane # "own" => screen = "week")
  /\ WallInit /\ (pane # "wall" => up = Shown)

TabsNext ==
  \/ pane = "posts" /\ PostsNext /\ UNCHANGED <<galleryVars, wallVars, pane>>
  \/ pane = "own" /\ GalleryNext /\ UNCHANGED <<postVars, wallVars, pane>>
  \/ pane = "wall" /\ WallNext /\ UNCHANGED <<postVars, galleryVars, pane>>

TabsSpec == TabsInit /\ [][TabsNext]_tabsVars
=============================================================================
