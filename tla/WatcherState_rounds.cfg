\* A file of every class and two edits: enough to change what a page embeds,
\* delete a file and make it again, or to edit in two places of one cycle.
SPECIFICATION FairSpec
CONSTANTS
  Pages = {page}
  Embeds = {note}
  Static = {css}
  Go = {main}
  MaxEdits = 2
  Absent = Absent
INVARIANTS Fresh
PROPERTIES EventuallyStill
