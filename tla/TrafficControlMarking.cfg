\* The claim of the comment on Close.
SPECIFICATION Spec
INVARIANT CloseResetsMarking
