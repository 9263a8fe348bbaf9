-------------------------- MODULE MCPromptTemplate --------------------------
(* Model checking of PromptTemplate.                                       *)
EXTENDS PromptTemplate

SomeCharacters == {"$", "&", "`", "'", "a"}

(* The one of the repository, and one that goes on behind the request.     *)
SomePrompts ==
    {<<"Below is the request contract.", Placeholder>>,
     <<"Request:", Placeholder, "Answer now.">>}
=============================================================================
