SPECIFICATION AuthoritySpec
CONSTANTS
  Account = {a1, a2}
  Zero = Zero
  Invalid = Invalid
  Empty = Empty
  Unset = Unset
INVARIANT
  OnlyOwnerIsOwner
