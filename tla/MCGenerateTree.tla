--------------------------- MODULE MCGenerateTree ---------------------------
(* GenerateTree for TLC: paths that collide, clash and agree in every way. *)
EXTENDS GenerateTree

PageSnake == Path("pages", <<Word("/", "post"), Word("_", "card")>>)
PageKebab == Path("pages", <<Word("/", "post"), Word("-", "card")>>)
PageCamel == Path("pages", <<Word("/", "post"), Word("aA", "card")>>)
Card      == Path("components", <<Word("/", "card")>>)
CardProps == Path("components", <<Word("/", "card"), Word("-", "props")>>)

MCFiles == {PageSnake, PageKebab, PageCamel, Card, CardProps}
=============================================================================
