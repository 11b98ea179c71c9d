------------------------------ MODULE MCAddScreen ---------------------------
EXTENDS AddScreen
G == 1..3
Cat == <<"shirt", "trousers", "dress">>
Plain(hue, name) == <<[hue |-> hue, name |-> name, named |-> name, share |-> 1]>>
Col == [g \in G |-> Plain(60 * g, "red")]
MyShelf == [category |-> Cat, colours |-> Col, seasons |-> [g \in G |-> {}]]

\* What the engine is asked about: four garments, each blank, neutral or of one
\* of two hues that clash, claiming the winter or nothing.
Shelves == {<<"shirt", "trousers", "dress", "jacket">>, <<"jacket", "tshirt", "shorts", "jacket">>,
            <<"dress", "shoes", "accessory", "jacket">>, <<"shirt", "tshirt", "shirt", "skirt">>,
            <<"shirt", "shirt", "jacket", "shoes">>}
Paints == {<<>>, Plain(0, "black"), Plain(0, "red"), Plain(100, "green")}
AllShapes == [category : Shelves, colours : [1..4 -> Paints], seasons : [1..4 -> {{}, {"winter"}}]]
=============================================================================
