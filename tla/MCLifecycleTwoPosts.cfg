\* Two media in two posts, two workers, no restart.
CONSTANTS
  video = video
  image = image
  post = post
  oldPost = oldPost
  w1 = w1
  w2 = w2
  None = None
  Media = {video, image}
  Posts = {post, oldPost}
  PostOf <- TwoPosts
  Videos = {video}
  OldPosts = {oldPost}
  Workers = {w1, w2}
  MaxAttempts = 1
  MaxCrashes = 0
SPECIFICATION Spec
INVARIANTS
  StoredStatusIsDerived
PROPERTIES
  OldPostsWait
SYMMETRY WorkerSymmetry
